---------------------------- MODULE Spec2Model ----------------------------
(***************************************************************************)
(* Report distribution and real-time notification fan-out of the           *)
(* VaidyaVihar Diagnostic backend:                                         *)
(*   - routes/report_distribution.py  (distribution records, acknowledge)  *)
(*   - services/websocket_service.py  (ConnectionManager)                  *)
(*   - services/redis_cache.py        (distributed lock, rate limiter)     *)
(* Each subsystem has its own specification (SpecDist, SpecRoute,          *)
(* SpecConn, SpecLock, SpecRate); the variables of the other subsystems    *)
(* stay at their initial values.                                           *)
(***************************************************************************)
EXTENDS Integers, Sequences, FiniteSets, TLC

VARIABLES
    report_distributions, \* the report_distributions table: row id = index
    dtask,                \* one HTTP request per slot (distribute / acknowledge)
    lock_value,           \* Redis key lock:<name>: the stored token, 0 = key absent
    lock_ttl,             \* remaining time to live of the key
    lcall,                \* one acquire_lock call per slot
    now,                  \* the clock, in units of one second
    active_connections,   \* user_id -> the session whose WebSocket is registered, 0 = no entry
    user_info,            \* user_id -> UserConnection (its subscribed_channels list)
    channels,             \* channel name -> set of user ids
    notification_queues,  \* user_id -> queued notifications
    conn_lock,            \* ConnectionManager._lock: the task holding it, 0 = unlocked
    conn_waiters,         \* the tasks waiting for _lock, first come first served
    delivered,            \* user_id -> the notifications sent on the user's WebSockets, in order
    ctask,                \* one websocket_endpoint run or send_personal_notification call per slot
    rl_count,             \* Redis key ratelimit:<identifier>: the counter, 0 = key absent
    rl_ttl,               \* remaining time to live of the key
    rl_since,             \* the time at which the key was created (start of the window)
    rnow,                 \* the clock of the rate limiter, in seconds
    rcall,                \* one check_rate_limit call per slot
    route_rows,           \* the report_distributions table seen by the route calls
    rtask                 \* one distribute / distribute-to-all-branches request per slot

distVars == <<report_distributions, dtask>>

lockVars == <<lock_value, lock_ttl, lcall, now>>

connVars ==
    <<active_connections, user_info, channels, notification_queues,
      conn_lock, conn_waiters, delivered, ctask>>

rateVars == <<rl_count, rl_ttl, rl_since, rnow, rcall>>

routeVars == <<route_rows, rtask>>

vars ==
    <<report_distributions, dtask, lock_value, lock_ttl, lcall, now,
      active_connections, user_info, channels, notification_queues,
      conn_lock, conn_waiters, delivered, ctask,
      rl_count, rl_ttl, rl_since, rnow, rcall,
      route_rows, rtask>>

-----------------------------------------------------------------------------
(* Bounds and input domains                                                *)

MaxDistTasks == 3

DTasks == 1..MaxDistTasks

\* doctors.id of the active doctors
Doctors == {1, 2}

Channels == {"email", "sms", "whatsapp", "push"}

\* delivery_methods lists a request may carry: the schema default (line 43)
DeliveryMethodChoices ==
    { {"portal", "email", "sms", "whatsapp"} }

\* Doctor.notification_preferences: doctor 1 keeps the column default (every
\* channel on), doctor 2 has opted out of email.
notification_preferences(d) ==
    IF d = 1 THEN Channels ELSE Channels \ {"email"}

Actions == {"view", "download", "print", "acknowledge"}

Statuses == {"pending", "sent", "delivered", "read", "failed"}

-----------------------------------------------------------------------------
(* Distribution records                                                    *)

NewDistribution(d) ==
    [ doctor_id       |-> d,
      delivery_status |-> "pending",
      viewed_at       |-> 0,
      downloaded_at   |-> 0,
      printed_at      |-> 0,
      acknowledged_at |-> 0,
      email_sent      |-> FALSE,
      sms_sent        |-> FALSE,
      whatsapp_sent   |-> FALSE,
      push_sent       |-> FALSE,
      email_sent_at    |-> 0,
      sms_sent_at      |-> 0,
      whatsapp_sent_at |-> 0,
      push_sent_at     |-> 0 ]

IdleTask ==
    [ kind |-> "none", pc |-> "idle", doctor |-> 0,
      methods |-> {}, rec |-> 0, created |-> FALSE, action |-> "none",
      snap |-> "none", ret |-> 0, alone |-> TRUE,
      any_ok |-> FALSE, invoked |-> {} ]

\* rows of the table for (lab_result, doctor d); a single lab result is modelled
Matching(d) == { i \in DOMAIN report_distributions :
                    report_distributions[i].doctor_id = d }

NonFailed(d) == { i \in Matching(d) :
                    report_distributions[i].delivery_status # "failed" }

\* mutant of Attempts: the recipient's preferences are not consulted
AttemptsIgnoringPreferences(t, c) ==
    /\ c \in dtask[t].methods

\* the channel block c of send_report_notifications is entered
Attempts(t, c) ==
    /\ c \in dtask[t].methods
    /\ c \in notification_preferences(dtask[t].doctor)

\* Requests are numbered in arrival order.  Each request is served by a
\* worker process of its own (request-driven concurrent workers), so the
\* database statements of different requests interleave freely.
Arrives(t) ==
    /\ dtask[t].pc = "idle"
    /\ \A u \in DTasks : u < t => dtask[u].kind # "none"

\* history: no other request was in flight when request t arrived
Alone(t) ==
    \A u \in DTasks \ {t} : dtask[u].pc \in {"idle", "done", "raised", "notfound"}

\* history: the provider's send of channel c is called when its block is entered
Invoked(t, c) == IF Attempts(t, c) THEN {c} ELSE {}

\* the response leaves; the request's session and arguments are dropped
Return(t, id, ok) ==
    dtask' = [dtask EXCEPT ![t].pc = "done", ![t].ret = id, ![t].methods = {},
                           ![t].any_ok = @ \/ ok,
                           ![t].invoked = @ \cup Invoked(t, "whatsapp")]

Raise(t) ==
    dtask' = [dtask EXCEPT ![t].pc = "raised", ![t].methods = {}]

-----------------------------------------------------------------------------
(* distribute_report_to_doctor                                             *)

\* mutant of DistCheck: an existing row is returned whatever its status
DistCheckReturnsFailed(t) ==
    /\ \E d \in Doctors, m \in DeliveryMethodChoices :
         /\ Arrives(t)
         /\ LET started == [IdleTask EXCEPT !.kind = "dist", !.alone = Alone(t),
                                            !.doctor = d, !.methods = m]
            IN
            \* .first() without ORDER BY: any matching row may come back
            \/ /\ Matching(d) = {}
               /\ dtask' = [dtask EXCEPT ![t] = [started EXCEPT !.pc = "insert"]]
            \/ \E existing \in Matching(d) :
                 IF TRUE
                 THEN dtask' = [dtask EXCEPT ![t] =
                             [started EXCEPT !.pc = "done", !.rec = existing,
                                             !.ret = existing, !.methods = {}]]
                 ELSE dtask' = [dtask EXCEPT ![t] = [started EXCEPT !.pc = "insert"]]
    /\ UNCHANGED report_distributions
    /\ UNCHANGED <<lockVars, connVars, rateVars, routeVars>>

\* mutant of DistCheck: an existing non-failed row is dispatched again
DistCheckResends(t) ==
    /\ \E d \in Doctors, m \in DeliveryMethodChoices :
         /\ Arrives(t)
         /\ LET started == [IdleTask EXCEPT !.kind = "dist", !.alone = Alone(t),
                                            !.doctor = d, !.methods = m]
            IN
            \* .first() without ORDER BY: any matching row may come back
            \/ /\ Matching(d) = {}
               /\ dtask' = [dtask EXCEPT ![t] = [started EXCEPT !.pc = "insert"]]
            \/ \E existing \in Matching(d) :
                 IF report_distributions[existing].delivery_status # "failed"
                 THEN dtask' = [dtask EXCEPT ![t] =
                             [started EXCEPT !.pc = "portal", !.rec = existing]]
                 ELSE dtask' = [dtask EXCEPT ![t] = [started EXCEPT !.pc = "insert"]]
    /\ UNCHANGED report_distributions
    /\ UNCHANGED <<lockVars, connVars, rateVars, routeVars>>

\* lines 96-105: the existence query and the early return
DistCheck(t) ==
    /\ \E d \in Doctors, m \in DeliveryMethodChoices :
         /\ Arrives(t)
         /\ LET started == [IdleTask EXCEPT !.kind = "dist", !.alone = Alone(t),
                                            !.doctor = d, !.methods = m]
            IN
            \* .first() without ORDER BY: any matching row may come back
            \/ /\ Matching(d) = {}
               /\ dtask' = [dtask EXCEPT ![t] = [started EXCEPT !.pc = "insert"]]
            \/ \E existing \in Matching(d) :
                 IF report_distributions[existing].delivery_status # "failed"
                 THEN dtask' = [dtask EXCEPT ![t] =
                             [started EXCEPT !.pc = "done", !.rec = existing,
                                             !.ret = existing, !.methods = {}]]
                 ELSE dtask' = [dtask EXCEPT ![t] = [started EXCEPT !.pc = "insert"]]
    /\ UNCHANGED report_distributions
    /\ UNCHANGED <<lockVars, connVars, rateVars, routeVars>>

\* lines 107-131: insert, commit, refresh, then the call of
\* send_report_notifications up to its first await (line 160)
DistInsert(t) ==
    /\ dtask[t].pc = "insert"
    /\ report_distributions' =
          Append(report_distributions, NewDistribution(dtask[t].doctor))
    /\ dtask' = [dtask EXCEPT ![t].pc = "portal",
                              ![t].rec = Len(report_distributions) + 1,
                              ![t].created = TRUE]
    /\ UNCHANGED <<lockVars, connVars, rateVars, routeVars>>

\* lines 160-171: the portal notification returns, or a failing websocket
\* send raises; then the email block, which has no suspension point:
\* EmailService.send_report_ready is a plain function returning bool, and
\* awaiting its result raises TypeError
DistPortal(t) ==
    /\ dtask[t].pc = "portal"
    /\ \/ Raise(t)
       \/ IF Attempts(t, "email")
          THEN dtask' = [dtask EXCEPT ![t].pc = "raised", ![t].methods = {},
                                      ![t].invoked = @ \cup {"email"}]
          ELSE dtask' = [dtask EXCEPT ![t].pc = "sms"]
    /\ UNCHANGED report_distributions
    /\ UNCHANGED <<lockVars, connVars, rateVars, routeVars>>

\* the provider's answer to a send on channel c: success or failure when the
\* send is made, none when the channel is skipped
SendResults(t, c) == IF Attempts(t, c) THEN BOOLEAN ELSE {FALSE}

\* lines 173-184: the SMS send returns; the provider swallows its errors and
\* answers SMSResponse(success=...), which the caller does not look at
DistSms(t) ==
    /\ dtask[t].pc = "sms"
    /\ \E ok \in SendResults(t, "sms") :
         dtask' = [dtask EXCEPT ![t].pc = "whatsapp", ![t].any_ok = @ \/ ok,
                                ![t].invoked = @ \cup Invoked(t, "sms")]
    /\ UNCHANGED report_distributions
    /\ UNCHANGED <<lockVars, connVars, rateVars, routeVars>>

\* the value the final commit writes: the attempted flags and status "sent"
Dispatched(row, t) ==
    [row EXCEPT !.delivery_status = "sent",
                !.email_sent    = @ \/ Attempts(t, "email"),
                !.sms_sent      = @ \/ Attempts(t, "sms"),
                !.whatsapp_sent = @ \/ Attempts(t, "whatsapp"),
                !.push_sent     = @ \/ Attempts(t, "push"),
                !.email_sent_at    = IF Attempts(t, "email") THEN t ELSE @,
                !.sms_sent_at      = IF Attempts(t, "sms") THEN t ELSE @,
                !.whatsapp_sent_at = IF Attempts(t, "whatsapp") THEN t ELSE @,
                !.push_sent_at     = IF Attempts(t, "push") THEN t ELSE @]

\* lines 186-227: the WhatsApp send returns; then, without a further await,
\* the push block, the status update and the commit
DistWhatsapp(t) ==
    /\ dtask[t].pc = "whatsapp"
    /\ report_distributions' =
          [report_distributions EXCEPT ![dtask[t].rec] = Dispatched(@, t)]
    /\ \E ok \in SendResults(t, "whatsapp") : Return(t, dtask[t].rec, ok)
    /\ UNCHANGED <<lockVars, connVars, rateVars, routeVars>>

-----------------------------------------------------------------------------
(* acknowledge_report                                                      *)

\* mutant of AckLoad: an id that matches no row is answered like a match
AckLoadUnknownAccepted(t) ==
    /\ \E id \in 1..(Len(report_distributions) + 1), a \in Actions :
         /\ Arrives(t)
         /\ LET started == [IdleTask EXCEPT !.kind = "ack", !.alone = Alone(t),
                                            !.rec = id, !.action = a]
            IN
            IF id \in DOMAIN report_distributions
            THEN dtask' = [dtask EXCEPT ![t] =
                     [started EXCEPT !.pc = "commit",
                         !.snap = report_distributions[id].delivery_status]]
            ELSE dtask' = [dtask EXCEPT ![t] = [started EXCEPT !.pc = "done"]]
    /\ UNCHANGED report_distributions
    /\ UNCHANGED <<lockVars, connVars, rateVars, routeVars>>

\* lines 544-549: load the row
AckLoad(t) ==
    /\ \E id \in 1..(Len(report_distributions) + 1), a \in Actions :
         /\ Arrives(t)
         /\ LET started == [IdleTask EXCEPT !.kind = "ack", !.alone = Alone(t),
                                            !.rec = id, !.action = a]
            IN
            IF id \in DOMAIN report_distributions
            THEN dtask' = [dtask EXCEPT ![t] =
                     [started EXCEPT !.pc = "commit",
                         !.snap = report_distributions[id].delivery_status]]
            ELSE dtask' = [dtask EXCEPT ![t] = [started EXCEPT !.pc = "notfound"]]
    /\ UNCHANGED report_distributions
    /\ UNCHANGED <<lockVars, connVars, rateVars, routeVars>>

\* mutant of AckStatus: the print branch also assigns a status, "sent"
AckStatusPrintResends(action, loaded) ==
    CASE action = "view"        -> IF loaded \in {"pending", "sent"}
                                   THEN "delivered" ELSE loaded
      [] action = "download"    -> "read"
      [] action = "print"       -> "sent"
      [] action = "acknowledge" -> "read"

\* lines 553-564 on the loaded object: the status the handler assigns
AckStatus(action, loaded) ==
    CASE action = "view"        -> IF loaded \in {"pending", "sent"}
                                   THEN "delivered" ELSE loaded
      [] action = "download"    -> "read"
      [] action = "print"       -> loaded
      [] action = "acknowledge" -> "read"

\* mutant of Acknowledged: a download also stamps viewed_at
AcknowledgedDownloadViews(row, action, loaded, stamp) ==
    LET stamped ==
          CASE action = "view"        -> [row EXCEPT !.viewed_at = stamp]
            [] action = "download"    -> [row EXCEPT !.downloaded_at = stamp,
                                                       !.viewed_at = stamp]
            [] action = "print"       -> [row EXCEPT !.printed_at = stamp]
            [] action = "acknowledge" -> [row EXCEPT !.acknowledged_at = stamp]
    IN IF AckStatus(action, loaded) # loaded
       THEN [stamped EXCEPT !.delivery_status = AckStatus(action, loaded)]
       ELSE stamped

\* line 566: the UPDATE carries the columns whose value changed in the session
Acknowledged(row, action, loaded, stamp) ==
    LET stamped ==
          CASE action = "view"        -> [row EXCEPT !.viewed_at = stamp]
            [] action = "download"    -> [row EXCEPT !.downloaded_at = stamp]
            [] action = "print"       -> [row EXCEPT !.printed_at = stamp]
            [] action = "acknowledge" -> [row EXCEPT !.acknowledged_at = stamp]
    IN IF AckStatus(action, loaded) # loaded
       THEN [stamped EXCEPT !.delivery_status = AckStatus(action, loaded)]
       ELSE stamped

AckCommit(t) ==
    /\ dtask[t].pc = "commit"
    /\ report_distributions' =
          [report_distributions EXCEPT ![dtask[t].rec] =
              Acknowledged(@, dtask[t].action, dtask[t].snap, t)]
    /\ dtask' = [dtask EXCEPT ![t].pc = "done", ![t].ret = dtask[t].rec]
    /\ UNCHANGED <<lockVars, connVars, rateVars, routeVars>>

-----------------------------------------------------------------------------
(* A record is marked failed.  No route writes "failed"; the status column *)
(* documents it and distribute_report_to_doctor branches on it.            *)

MarkFailed(r) ==
    /\ r \in DOMAIN report_distributions
    /\ report_distributions[r].delivery_status \in {"pending", "sent"}
    /\ report_distributions' =
          [report_distributions EXCEPT ![r].delivery_status = "failed"]
    /\ UNCHANGED dtask
    /\ UNCHANGED <<lockVars, connVars, rateVars, routeVars>>

-----------------------------------------------------------------------------

InitDist ==
    /\ report_distributions = <<>>
    /\ dtask = [t \in DTasks |-> IdleTask]

NextDist ==
    \/ \E t \in DTasks : DistCheck(t)
    \/ \E t \in DTasks : DistInsert(t)
    \/ \E t \in DTasks : DistPortal(t)
    \/ \E t \in DTasks : DistSms(t)
    \/ \E t \in DTasks : DistWhatsapp(t)
    \/ \E t \in DTasks : AckLoad(t)
    \/ \E t \in DTasks : AckCommit(t)
    \/ \E r \in DTasks : MarkFailed(r)

-----------------------------------------------------------------------------
(* RedisCache.acquire_lock / release_lock on one lock name                 *)

MaxLockCalls == 3

MaxTime == 3

LCalls == 1..MaxLockCalls

\* values of the timeout argument (lock expiry and blocking wait), seconds
Timeouts == {1, 2}

\* each call draws a fresh uuid4 token: the token of call t is t
IdleCall ==
    [ pc |-> "idle", blocking |-> FALSE, timeout |-> 0, start |-> 0,
      expires |-> 0 ]

\* mutant of SetNx: the nx=True argument is missing, SET overwrites
SetAlways(token, ex) ==
    /\ lock_value' = token
    /\ lock_ttl' = ex

\* lines 364-369 / 375-380: SET key token NX EX timeout, when the key is absent
SetNx(token, ex) ==
    /\ lock_value' = IF lock_value = 0 THEN token ELSE lock_value
    /\ lock_ttl' = IF lock_value = 0 THEN ex ELSE lock_ttl

\* calls are numbered in the order they are made
Called(t) == lcall[t].pc = "idle" /\ \A u \in LCalls : u < t => lcall[u].pc # "idle"

\* lines 374-381: the non-blocking call
AcquireLock(t) ==
    /\ Called(t)
    /\ \E timeout \in Timeouts :
         /\ SetNx(t, timeout)
         /\ lcall' = [lcall EXCEPT ![t] =
               [IdleCall EXCEPT !.pc = IF lock_value' = t THEN "held" ELSE "none",
                                !.expires = IF lock_value' = t
                                            THEN now + timeout ELSE 0]]
    /\ UNCHANGED now
    /\ UNCHANGED <<distVars, connVars, rateVars, routeVars>>

\* lines 359-362: the blocking call records its start time
AcquireLockBlocking(t) ==
    /\ Called(t)
    /\ \E timeout \in Timeouts :
         lcall' = [lcall EXCEPT ![t] =
               [IdleCall EXCEPT !.blocking = TRUE, !.timeout = timeout,
                                !.start = now, !.pc = "trying"]]
    /\ UNCHANGED <<lock_value, lock_ttl, now>>
    /\ UNCHANGED <<distVars, connVars, rateVars, routeVars>>

\* mutant of BlockingTry: the loop condition ignores the elapsed time, the
\* call retries until the SET succeeds
BlockingTryForever(t) ==
    /\ lcall[t].pc = "trying"
    /\ lock_value = 0
    /\ SetNx(t, lcall[t].timeout)
    /\ lock_value' = t
    /\ lcall' = [lcall EXCEPT ![t].pc = "held", ![t].start = 0,
                              ![t].timeout = 0,
                              ![t].expires = now + lcall[t].timeout]
    /\ UNCHANGED now
    /\ UNCHANGED <<distVars, connVars, rateVars, routeVars>>

\* lines 362-373: one turn of the retry loop that changes something: the SET
\* succeeds, or the wait has lasted timeout seconds and None is returned (a
\* failed SET followed by sleep(0.1) leaves the state as it is)
BlockingTry(t) ==
    /\ lcall[t].pc = "trying"
    /\ IF now - lcall[t].start < lcall[t].timeout
       THEN /\ lock_value = 0
            /\ SetNx(t, lcall[t].timeout)
            /\ lock_value' = t
            /\ lcall' = [lcall EXCEPT ![t].pc = "held", ![t].start = 0,
                                      ![t].timeout = 0,
                                      ![t].expires = now + lcall[t].timeout]
       ELSE /\ lcall' = [lcall EXCEPT ![t].pc = "none", ![t].start = 0,
                                      ![t].timeout = 0]
            /\ UNCHANGED <<lock_value, lock_ttl>>
    /\ UNCHANGED now
    /\ UNCHANGED <<distVars, connVars, rateVars, routeVars>>

\* mutant of ReleaseLock: DEL without the comparison
ReleaseLockUnchecked(k) ==
    /\ lcall[k].pc = "held"
    /\ lcall' = [lcall EXCEPT ![k].pc = "released", ![k].expires = 0]
    /\ lock_value' = 0
    /\ lock_ttl' = 0
    /\ UNCHANGED now
    /\ UNCHANGED <<distVars, connVars, rateVars, routeVars>>

\* lines 383-397: compare-and-delete with the token of call k, presented by
\* the caller that was handed it; the call returns result == 1
ReleaseLock(k) ==
    /\ lcall[k].pc = "held"
    /\ lcall' = [lcall EXCEPT ![k].pc = IF lock_value = k THEN "released"
                                                         ELSE "not_released",
                              ![k].expires = 0]
    /\ lock_value' = IF lock_value = k THEN 0 ELSE lock_value
    /\ lock_ttl' = IF lock_value = k THEN 0 ELSE lock_ttl
    /\ UNCHANGED now
    /\ UNCHANGED <<distVars, connVars, rateVars, routeVars>>

\* one second passes; Redis drops the key when its time to live is over
Tick ==
    /\ now < MaxTime
    /\ now' = now + 1
    /\ lock_ttl' = IF lock_ttl > 0 THEN lock_ttl - 1 ELSE 0
    /\ lock_value' = IF lock_ttl <= 1 THEN 0 ELSE lock_value
    /\ UNCHANGED lcall
    /\ UNCHANGED <<distVars, connVars, rateVars, routeVars>>

InitLock ==
    /\ lock_value = 0
    /\ lock_ttl = 0
    /\ lcall = [t \in LCalls |-> IdleCall]
    /\ now = 0

NextLock ==
    \/ \E t \in LCalls : AcquireLock(t)
    \/ \E t \in LCalls : AcquireLockBlocking(t)
    \/ \E t \in LCalls : BlockingTry(t)
    \/ \E k \in LCalls : ReleaseLock(k)
    \/ Tick

-----------------------------------------------------------------------------
(* ConnectionManager: connect, disconnect, send_personal_notification,     *)
(* _send_pending_notifications, and the websocket_endpoint that drives them *)

MaxConnTasks == 5

CTasks == 1..MaxConnTasks

Users == {1, 2}

\* the user_type argument of connect
user_type(u) == "doctor"

PrivateChannel(u) == IF u = 1 THEN "user:1" ELSE "user:2"

RoleChannel(u) == "role:doctor"

ChannelNames == {"user:1", "user:2", "role:doctor", "branch:1"}

\* a notification is identified by the call that publishes it
IdleConnTask ==
    [ kind |-> "none", pc |-> "idle", user |-> 0, ws |-> 0, idx |-> 0,
      ret |-> "none",
      \* the channel of a subscribe, unsubscribe or send_channel_notification;
      \* user_ids and sent_count of send_channel_notification
      chan |-> "none", user_ids |-> <<>>, sent_count |-> 0 ]

NoUserConnection == [present |-> FALSE, subscribed_channels |-> <<>>]

\* calls are numbered in the order they are made
ConnArrives(t) ==
    ctask[t].pc = "idle" /\ \A u \in CTasks : u < t => ctask[u].kind # "none"

\* asyncio.Lock.acquire returns at once only when the lock is unlocked and
\* nobody waits for it
LockFree == conn_lock = 0 /\ conn_waiters = <<>>

\* asyncio.Lock.acquire when the lock is taken: wait in line
WaitForLock(t) == conn_waiters' = Append(conn_waiters, t)

\* asyncio.Lock.release: the first waiter is woken and is next to hold it
ReleaseTo(waiters) ==
    /\ conn_lock' = IF waiters = <<>> THEN 0 ELSE Head(waiters)
    /\ conn_waiters' = IF waiters = <<>> THEN <<>> ELSE Tail(waiters)

\* the client of session ws still reads its WebSocket
Connected(ws) ==
    ctask[ws].pc \in {"wait_flush", "flushing", "receiving",
                      "wait_subscribe", "wait_unsubscribe"}

\* lines 111-127: the registration made under the lock
Register(t, u) ==
    /\ active_connections' = [active_connections EXCEPT ![u] = t]
    /\ user_info' = [user_info EXCEPT ![u] =
          [ present |-> TRUE,
            subscribed_channels |->
                <<PrivateChannel(u)>> \o
                (IF u \in channels[RoleChannel(u)]
                 THEN <<>> ELSE <<RoleChannel(u)>>) ]]
    /\ channels' = [c \in ChannelNames |->
          IF c \in {PrivateChannel(u), RoleChannel(u)}
          THEN channels[c] \cup {u} ELSE channels[c]]

\* lines 220-227 with the lock just taken by t, where conns is the registry at
\* that moment and waiters the line behind t: with something to send the task
\* suspends in the first send_json, else the lock is released and connect
\* returns (lines 132-135) into the receive loop
BeginFlush(t, u, conns, waiters) ==
    IF notification_queues[u] # <<>> /\ conns[u] # 0
    THEN /\ ctask' = [ctask EXCEPT ![t] =
                [@ EXCEPT !.kind = "session", !.user = u, !.pc = "flushing",
                          !.ws = conns[u], !.idx = 1]]
         /\ conn_lock' = t
         /\ conn_waiters' = waiters
    ELSE /\ ctask' = [ctask EXCEPT ![t] =
                [@ EXCEPT !.kind = "session", !.user = u, !.pc = "receiving"]]
         /\ ReleaseTo(waiters)

\* lines 487-489, 106-130: a client opens a WebSocket; accept, then the lock.
\* Unlocked: the registration, the release and the second acquire (line 220)
\* follow without a suspension
Connect(t) ==
    /\ ConnArrives(t)
    /\ \E u \in Users :
         IF LockFree
         THEN /\ Register(t, u)
              /\ BeginFlush(t, u, active_connections', <<>>)
         ELSE /\ WaitForLock(t)
              /\ ctask' = [ctask EXCEPT ![t] =
                    [IdleConnTask EXCEPT !.kind = "session", !.user = u,
                                         !.pc = "wait_register"]]
              /\ UNCHANGED <<active_connections, user_info, channels, conn_lock>>
    /\ UNCHANGED <<notification_queues, delivered>>
    /\ UNCHANGED <<distVars, lockVars, rateVars, routeVars>>

\* mutant of ConnectWoken: the flush is called inside the lock block
ConnectWokenNested(t) ==
    /\ ctask[t].pc = "wait_register"
    /\ conn_lock = t
    /\ Register(t, ctask[t].user)
    /\ conn_lock' = t
    /\ conn_waiters' = Append(conn_waiters, t)
    /\ ctask' = [ctask EXCEPT ![t].pc = "wait_flush"]
    /\ UNCHANGED <<notification_queues, delivered>>
    /\ UNCHANGED <<distVars, lockVars, rateVars, routeVars>>

\* lines 110-130 for a task that had to wait: when others wait too, the
\* release at the end of the block hands the lock on, and
\* _send_pending_notifications joins the end of the line
ConnectWoken(t) ==
    /\ ctask[t].pc = "wait_register"
    /\ conn_lock = t
    /\ Register(t, ctask[t].user)
    /\ IF conn_waiters = <<>>
       THEN BeginFlush(t, ctask[t].user, active_connections', <<>>)
       ELSE /\ conn_lock' = Head(conn_waiters)
            /\ conn_waiters' = Append(Tail(conn_waiters), t)
            /\ ctask' = [ctask EXCEPT ![t].pc = "wait_flush"]
    /\ UNCHANGED <<notification_queues, delivered>>
    /\ UNCHANGED <<distVars, lockVars, rateVars, routeVars>>

\* lines 220-227 for a task that had to wait
FlushWoken(t) ==
    /\ ctask[t].pc = "wait_flush"
    /\ conn_lock = t
    /\ BeginFlush(t, ctask[t].user, active_connections, conn_waiters)
    /\ UNCHANGED <<active_connections, user_info, channels,
                   notification_queues, delivered>>
    /\ UNCHANGED <<distVars, lockVars, rateVars, routeVars>>

\* lines 225-227: one send_json of the flush ends.  It returns, and after the
\* last one the list is cleared and connect returns; or it raises, the lock is
\* released, and the exception leaves connect and websocket_endpoint (line
\* 489 is outside the try block)
FlushSend(t) ==
    /\ ctask[t].pc = "flushing"
    /\ LET u == ctask[t].user
           q == notification_queues[u]
       IN
       \/ /\ Connected(ctask[t].ws)
          /\ delivered' = [delivered EXCEPT ![u] =
                Append(@, [n |-> q[ctask[t].idx], ws |-> ctask[t].ws])]
          /\ IF ctask[t].idx = Len(q)
             THEN /\ notification_queues' = [notification_queues EXCEPT ![u] = <<>>]
                  /\ ctask' = [ctask EXCEPT ![t].pc = "receiving",
                                            ![t].ws = 0, ![t].idx = 0]
                  /\ ReleaseTo(conn_waiters)
             ELSE /\ ctask' = [ctask EXCEPT ![t].idx = @ + 1]
                  /\ UNCHANGED <<notification_queues, conn_lock, conn_waiters>>
       \/ /\ ctask' = [ctask EXCEPT ![t].pc = "crashed", ![t].ws = 0, ![t].idx = 0]
          /\ ReleaseTo(conn_waiters)
          /\ UNCHANGED <<notification_queues, delivered>>
    /\ UNCHANGED <<active_connections, user_info, channels>>
    /\ UNCHANGED <<distVars, lockVars, rateVars, routeVars>>

\* lines 140-151: the removal made under the lock
Unregister(u) ==
    /\ active_connections' = [active_connections EXCEPT ![u] = 0]
    /\ user_info' = [user_info EXCEPT ![u] = NoUserConnection]
    /\ channels' = [c \in ChannelNames |->
          IF /\ user_info[u].present
             /\ \E i \in DOMAIN user_info[u].subscribed_channels :
                    user_info[u].subscribed_channels[i] = c
          THEN channels[c] \ {u} ELSE channels[c]]

\* lines 494, 557-558: the client goes away, receive_text raises
\* WebSocketDisconnect and the handler calls disconnect(user_id)
Disconnect(t) ==
    /\ ctask[t].pc = "receiving"
    /\ IF LockFree
       THEN /\ Unregister(ctask[t].user)
            /\ ctask' = [ctask EXCEPT ![t].pc = "closed"]
            /\ UNCHANGED <<conn_lock, conn_waiters>>
       ELSE /\ WaitForLock(t)
            /\ ctask' = [ctask EXCEPT ![t].pc = "wait_disconnect"]
            /\ UNCHANGED <<active_connections, user_info, channels, conn_lock>>
    /\ UNCHANGED <<notification_queues, delivered>>
    /\ UNCHANGED <<distVars, lockVars, rateVars, routeVars>>

\* lines 139-153 for a task that had to wait
DisconnectWoken(t) ==
    /\ ctask[t].pc = "wait_disconnect"
    /\ conn_lock = t
    /\ Unregister(ctask[t].user)
    /\ ctask' = [ctask EXCEPT ![t].pc = "closed"]
    /\ ReleaseTo(conn_waiters)
    /\ UNCHANGED <<notification_queues, delivered>>
    /\ UNCHANGED <<distVars, lockVars, rateVars, routeVars>>

\* mutant of Decide: a queued notification goes to the head of the list
DecideQueueAtHead(t, u, waiters) ==
    IF active_connections[u] # 0
    THEN /\ ctask' = [ctask EXCEPT ![t] =
                [@ EXCEPT !.kind = "publish", !.user = u, !.pc = "sending",
                          !.ws = active_connections[u]]]
         /\ conn_lock' = t
         /\ conn_waiters' = waiters
         /\ UNCHANGED notification_queues
    ELSE /\ notification_queues' =
                [notification_queues EXCEPT ![u] = <<t>> \o @]
         /\ ctask' = [ctask EXCEPT ![t] =
                [@ EXCEPT !.kind = "publish", !.user = u, !.pc = "done",
                          !.ret = "false"]]
         /\ ReleaseTo(waiters)

\* lines 158-165 with the lock just taken by t: a registered user's send_json
\* suspends the task, which keeps the lock; else the notification is queued
\* and False returned
Decide(t, u, waiters) ==
    IF active_connections[u] # 0
    THEN /\ ctask' = [ctask EXCEPT ![t] =
                [@ EXCEPT !.kind = "publish", !.user = u, !.pc = "sending",
                          !.ws = active_connections[u]]]
         /\ conn_lock' = t
         /\ conn_waiters' = waiters
         /\ UNCHANGED notification_queues
    ELSE /\ notification_queues' =
                [notification_queues EXCEPT ![u] = Append(@, t)]
         /\ ctask' = [ctask EXCEPT ![t] =
                [@ EXCEPT !.kind = "publish", !.user = u, !.pc = "done",
                          !.ret = "false"]]
         /\ ReleaseTo(waiters)

\* lines 155-165: send_personal_notification(user_id, notification)
Publish(t) ==
    /\ ConnArrives(t)
    /\ \E u \in Users :
         IF LockFree
         THEN Decide(t, u, <<>>)
         ELSE /\ WaitForLock(t)
              /\ ctask' = [ctask EXCEPT ![t] =
                    [IdleConnTask EXCEPT !.kind = "publish", !.user = u,
                                         !.pc = "wait_publish"]]
              /\ UNCHANGED <<notification_queues, conn_lock>>
    /\ UNCHANGED <<active_connections, user_info, channels, delivered>>
    /\ UNCHANGED <<distVars, lockVars, rateVars, routeVars>>

\* lines 157-165 for a task that had to wait
PublishWoken(t) ==
    /\ ctask[t].pc = "wait_publish"
    /\ conn_lock = t
    /\ Decide(t, ctask[t].user, conn_waiters)
    /\ UNCHANGED <<active_connections, user_info, channels, delivered>>
    /\ UNCHANGED <<distVars, lockVars, rateVars, routeVars>>

\* lines 160-161: the send_json ends.  It returns and the call returns True;
\* or it raises, the lock is released and the exception leaves the call
PublishSend(t) ==
    /\ ctask[t].pc = "sending"
    /\ \/ /\ Connected(ctask[t].ws)
          /\ delivered' = [delivered EXCEPT ![ctask[t].user] =
                Append(@, [n |-> t, ws |-> ctask[t].ws])]
          /\ ctask' = [ctask EXCEPT ![t].pc = "done", ![t].ret = "true",
                                    ![t].ws = 0]
       \/ /\ ctask' = [ctask EXCEPT ![t].pc = "raised", ![t].ws = 0]
          /\ UNCHANGED delivered
    /\ ReleaseTo(conn_waiters)
    /\ UNCHANGED <<active_connections, user_info, channels, notification_queues>>
    /\ UNCHANGED <<distVars, lockVars, rateVars, routeVars>>

InitConn ==
    /\ active_connections = [u \in Users |-> 0]
    /\ user_info = [u \in Users |-> NoUserConnection]
    /\ channels = [c \in ChannelNames |-> {}]
    /\ notification_queues = [u \in Users |-> <<>>]
    /\ conn_lock = 0
    /\ conn_waiters = <<>>
    /\ delivered = [u \in Users |-> <<>>]
    /\ ctask = [t \in CTasks |-> IdleConnTask]

NextConn ==
    \/ \E t \in CTasks : Connect(t)
    \/ \E t \in CTasks : ConnectWoken(t)
    \/ \E t \in CTasks : FlushWoken(t)
    \/ \E t \in CTasks : FlushSend(t)
    \/ \E t \in CTasks : Disconnect(t)
    \/ \E t \in CTasks : DisconnectWoken(t)
    \/ \E t \in CTasks : Publish(t)
    \/ \E t \in CTasks : PublishWoken(t)
    \/ \E t \in CTasks : PublishSend(t)

-----------------------------------------------------------------------------
(* RedisCache.check_rate_limit on one identifier                           *)

MaxRateCalls == 4

MaxRateTime == 4

RCalls == 1..MaxRateCalls

\* the limit and window arguments of the calls
RateLimit == 2

RateWindow == 2

IdleRateCall ==
    [ pc |-> "idle", current |-> 0, allowed |-> FALSE, remaining |-> 0,
      since |-> 0, reset_at |-> 0 ]

Max(a, b) == IF a >= b THEN a ELSE b

\* mutant of RateResult: the comparison is strict
RateResultStrict(current, limit) ==
    [allowed |-> current < limit, remaining |-> Max(0, limit - current)]

\* lines 319-320
RateResult(current, limit) ==
    [allowed |-> current <= limit, remaining |-> Max(0, limit - current)]

\* lines 310-320: MULTI / INCR key / EXPIRE key window / EXEC, then the
\* result computed from the counter INCR returned
RateIncr(t) ==
    /\ rcall[t].pc = "idle"
    /\ \A u \in RCalls : u < t => rcall[u].pc # "idle"
    /\ rl_count' = rl_count + 1
    /\ rl_ttl' = RateWindow
    /\ rl_since' = IF rl_count = 0 THEN rnow ELSE rl_since
    /\ rcall' = [rcall EXCEPT ![t] =
          [ pc |-> "ttl", current |-> rl_count + 1,
            allowed |-> RateResult(rl_count + 1, RateLimit).allowed,
            remaining |-> RateResult(rl_count + 1, RateLimit).remaining,
            since |-> rl_since', reset_at |-> 0 ]]
    /\ UNCHANGED rnow
    /\ UNCHANGED <<distVars, lockVars, connVars, routeVars>>

\* lines 323-333: TTL key in a second round trip, reset_at, and the return
RateTtl(t) ==
    /\ rcall[t].pc = "ttl"
    /\ rcall' = [rcall EXCEPT ![t].pc = "done",
                              ![t].reset_at = IF rl_count > 0 /\ rl_ttl > 0
                                              THEN rnow + rl_ttl ELSE 0]
    /\ UNCHANGED <<rl_count, rl_ttl, rl_since, rnow>>
    /\ UNCHANGED <<distVars, lockVars, connVars, routeVars>>

\* one second passes; Redis drops the key when its time to live is over
RateTick ==
    /\ rnow < MaxRateTime
    /\ rnow' = rnow + 1
    /\ rl_ttl' = IF rl_ttl > 0 THEN rl_ttl - 1 ELSE 0
    /\ rl_count' = IF rl_ttl <= 1 THEN 0 ELSE rl_count
    /\ rl_since' = IF rl_ttl <= 1 THEN 0 ELSE rl_since
    /\ UNCHANGED rcall
    /\ UNCHANGED <<distVars, lockVars, connVars, routeVars>>

InitRate ==
    /\ rl_count = 0
    /\ rl_ttl = 0
    /\ rl_since = 0
    /\ rnow = 0
    /\ rcall = [t \in RCalls |-> IdleRateCall]

NextRate ==
    \/ \E t \in RCalls : RateIncr(t)
    \/ \E t \in RCalls : RateTtl(t)
    \/ RateTick

-----------------------------------------------------------------------------
(* The routes distribute_report and distribute_report_to_all_relevant_     *)
(* doctors: one request walks its list of doctors, calling                 *)
(* distribute_report_to_doctor for each                                    *)

MaxRouteCalls == 2

RTasks == 1..MaxRouteCalls

Routes == {"distribute", "all"}

\* doctors.id of a doctor whose is_active is false
InactiveDoctors == {3}

Branches == {1, 2, 3}

\* the doctor_ids of a request (empty: resolve the recipients), or the order
\* in which the query of line 349 returns the active doctors
DoctorLists ==
    {<<>>, <<1>>, <<2>>, <<1, 2>>, <<2, 1>>, <<3>>, <<3, 2>>, <<4, 1>>}

\* the lab_result_id of a request, and the ids of the rows of lab_results
LabResultIds == {1, 2}

lab_results == {1}

\* mutant of LabResultExists: the request goes on without the row
LabResultAssumed(id) == TRUE

\* lines 249-252 and 343-346: the query for the lab result returns a row
LabResultExists(id) == id \in lab_results

\* mutant of Active: the loop does not look at the doctor it loaded
ActiveUnchecked(d) == TRUE

\* lines 305-306 and 349: the doctor exists and is_active (id 3 is inactive,
\* id 4 is no doctor)
Active(d) == d \in Doctors

\* rows of doctor_branches: doctor 1 is assigned to branch 1, doctor 2 has an
\* assignment to branch 1 that is no longer active, the inactive doctor 3 is
\* assigned to branch 2, nobody is assigned to branch 3
doctor_branches ==
    { [doctor_id |-> 1, branch_id |-> 1, is_active |-> TRUE,
       receive_all_reports |-> TRUE],
      [doctor_id |-> 2, branch_id |-> 1, is_active |-> FALSE,
       receive_all_reports |-> TRUE],
      [doctor_id |-> 3, branch_id |-> 2, is_active |-> TRUE,
       receive_all_reports |-> TRUE] }

\* the orders in which a query without ORDER BY may return the set S
Orders(S) ==
    { q \in [1..Cardinality(S) -> S] :
        \A i, j \in 1..Cardinality(S) : q[i] = q[j] => i = j }

\* lines 274-280: doctors with a distribution for the patient (one patient
\* and one lab result are modelled)
PreviousRecipients == { route_rows[i].doctor_id : i \in DOMAIN route_rows }

\* lines 282-292: active receive-all assignments to branch b
BranchRecipients(b) ==
    { a.doctor_id : a \in { x \in doctor_branches :
                               /\ x.branch_id = b
                               /\ x.is_active
                               /\ x.receive_all_reports } }

\* line 43 and line 333: the default delivery_methods of the two routes
RouteMethods(route) ==
    IF route = "distribute" THEN {"portal", "email", "sms", "whatsapp"}
                            ELSE {"portal", "email"}

IdleRoute ==
    [ route |-> "none", pc |-> "idle", doctor_ids |-> <<>>, next |-> 0,
      distributions |-> <<>>,
      \* the request's doctor_ids; lab_result.requested_by (0: null, else the
      \* doctor it names), lab_result.branch_id and patient.branch_id as read
      \* by the resolution (0: not read); history: the rows the call inserted
      explicit |-> <<>>, requested_by |-> 0, branch_id |-> 0,
      patient_branch |-> 0, created |-> <<>>,
      \* the lab_result_id of the request
      lab_result_id |-> 0,
      \* distributions_count of the result (line 325)
      distributions_count |-> 0 ]

\* lines 163, 174, 187, 204: channel c is requested and not opted out
Wanted(methods, d, c) == c \in methods /\ c \in notification_preferences(d)

\* lines 170-225 for a dispatch that reaches its commit
DispatchedBy(row, methods, stamp) ==
    [row EXCEPT !.delivery_status = "sent",
                !.email_sent    = @ \/ Wanted(methods, row.doctor_id, "email"),
                !.sms_sent      = @ \/ Wanted(methods, row.doctor_id, "sms"),
                !.whatsapp_sent = @ \/ Wanted(methods, row.doctor_id, "whatsapp"),
                !.push_sent     = @ \/ Wanted(methods, row.doctor_id, "push"),
                !.email_sent_at    =
                    IF Wanted(methods, row.doctor_id, "email") THEN stamp ELSE @,
                !.sms_sent_at      =
                    IF Wanted(methods, row.doctor_id, "sms") THEN stamp ELSE @,
                !.whatsapp_sent_at =
                    IF Wanted(methods, row.doctor_id, "whatsapp") THEN stamp ELSE @,
                !.push_sent_at     =
                    IF Wanted(methods, row.doctor_id, "push") THEN stamp ELSE @]

\* lines 248-303 and 343-355: the request arrives.  distribute-to-all lists
\* the active doctors.  distribute takes the doctor_ids of the request; when
\* there are none it resolves them: with a requested_by on the lab result the
\* query of line 265 evaluates Doctor.full_name.ilike, and full_name is a
\* plain property of the class (doctor.py:96-98), so the evaluation raises
\* AttributeError; else the doctors of earlier distributions, then those
\* assigned to the patient's branch.  An empty list is answered no_recipients.
\* Before any of it, a lab_result_id without a row is answered 404
RouteStart(r) ==
    /\ rtask[r].pc = "idle"
    /\ \A u \in RTasks : u < r => rtask[u].pc # "idle"
    /\ \E route \in Routes, ids \in DoctorLists, lr \in LabResultIds :
         LET started == [IdleRoute EXCEPT !.route = route, !.pc = "loop",
                                          !.explicit = ids, !.doctor_ids = ids,
                                          !.next = 1, !.lab_result_id = lr]
         IN
         IF ~LabResultExists(lr)
         THEN rtask' = [rtask EXCEPT ![r] =
                          [IdleRoute EXCEPT !.route = route, !.pc = "not_found",
                                            !.lab_result_id = lr]]
         ELSE
         \/ /\ route = "all"
            /\ ids \in Orders(Doctors)
            /\ rtask' = [rtask EXCEPT ![r] = [started EXCEPT !.explicit = <<>>]]
         \/ /\ route = "distribute"
            /\ ids # <<>>
            /\ rtask' = [rtask EXCEPT ![r] = started]
         \/ /\ route = "distribute"
            /\ ids = <<>>
            /\ \E rb \in {0} \cup Doctors \cup InactiveDoctors,
                  b \in Branches, pb \in Branches :
                 LET read == [started EXCEPT !.requested_by = rb,
                                  !.branch_id = b, !.patient_branch = pb]
                 IN
                 IF rb # 0
                 THEN rtask' = [rtask EXCEPT ![r] =
                                  [read EXCEPT !.pc = "error", !.next = 0]]
                 ELSE \E prev \in Orders(PreviousRecipients),
                         br \in Orders(BranchRecipients(pb) \ PreviousRecipients) :
                        rtask' = [rtask EXCEPT ![r] =
                           IF prev \o br = <<>>
                           THEN [read EXCEPT !.pc = "no_recipients", !.next = 0]
                           ELSE [read EXCEPT !.doctor_ids = prev \o br]]
    /\ UNCHANGED route_rows
    /\ UNCHANGED <<distVars, lockVars, connVars, rateVars>>

\* lines 304-319 and 356-367: the next doctor of the list goes through
\* distribute_report_to_doctor (lines 96-133) and send_report_notifications.
\* An existing non-failed row is returned as it is; else a row is inserted
\* and committed, and the dispatch either reaches its commit or raises (the
\* portal push fails, or the email block is entered).  distribute_report
\* catches the error and goes on; the other route has no handler.  A doctor
\* that is unknown or not active is passed over (line 306)
RouteDoctor(r) ==
    /\ rtask[r].pc = "loop"
    /\ rtask[r].next <= Len(rtask[r].doctor_ids)
    /\ LET d       == rtask[r].doctor_ids[rtask[r].next]
           methods == RouteMethods(rtask[r].route)
           found   == {i \in DOMAIN route_rows : route_rows[i].doctor_id = d}
           id      == Len(route_rows) + 1
           skip ==
               /\ rtask' = [rtask EXCEPT ![r].next = @ + 1]
               /\ UNCHANGED route_rows
           reuse(existing) ==
               /\ rtask' = [rtask EXCEPT ![r].next = @ + 1,
                                         ![r].distributions = Append(@, existing)]
               /\ UNCHANGED route_rows
           sent ==
               /\ ~Wanted(methods, d, "email")
               /\ route_rows' = Append(route_rows,
                                       DispatchedBy(NewDistribution(d), methods, r))
               /\ rtask' = [rtask EXCEPT ![r].next = @ + 1,
                                         ![r].distributions = Append(@, id),
                                         ![r].created = Append(@, id)]
           raised ==
               /\ route_rows' = Append(route_rows, NewDistribution(d))
               /\ rtask' = IF rtask[r].route = "distribute"
                           THEN [rtask EXCEPT ![r].next = @ + 1,
                                              ![r].created = Append(@, id)]
                           ELSE [rtask EXCEPT ![r].pc = "raised",
                                              ![r].created = Append(@, id)]
       IN
       IF ~Active(d)
       THEN skip
       ELSE \/ found = {} /\ (sent \/ raised)
            \/ \E existing \in found :
                  IF route_rows[existing].delivery_status # "failed"
                  THEN reuse(existing)
                  ELSE sent \/ raised
    /\ UNCHANGED <<distVars, lockVars, connVars, rateVars>>

\* lines 321-327 and 369-374: the result summary
RouteReturn(r) ==
    /\ rtask[r].pc = "loop"
    /\ rtask[r].next > Len(rtask[r].doctor_ids)
    /\ rtask' = [rtask EXCEPT ![r].pc = "done",
                              ![r].distributions_count = Len(rtask[r].distributions)]
    /\ UNCHANGED route_rows
    /\ UNCHANGED <<distVars, lockVars, connVars, rateVars>>

InitRoute ==
    /\ route_rows = <<>>
    /\ rtask = [r \in RTasks |-> IdleRoute]

NextRoute ==
    \/ \E r \in RTasks : RouteStart(r)
    \/ \E r \in RTasks : RouteDoctor(r)
    \/ \E r \in RTasks : RouteReturn(r)

-----------------------------------------------------------------------------
(* ConnectionManager: channels.  The calls of the sections above, with     *)
(* subscribe_to_channel, unsubscribe_from_channel and                      *)
(* send_channel_notification, over fewer calls.                            *)

MaxChanTasks == 3

ChanTasks == 1..MaxChanTasks

\* channels a client asks to join or leave (lines 506-520)
SubChannels == {"role:doctor", "branch:1"}

\* channels of broadcast_to_role and broadcast_to_branch
PubChannels == {"role:doctor", "branch:1"}

\* lines 206-210 under the lock
Subscribed(u, c) ==
    /\ channels' = [channels EXCEPT ![c] = @ \cup {u}]
    /\ user_info' =
          IF /\ user_info[u].present
             /\ \A i \in DOMAIN user_info[u].subscribed_channels :
                    user_info[u].subscribed_channels[i] # c
          THEN [user_info EXCEPT ![u].subscribed_channels = Append(@, c)]
          ELSE user_info

\* lines 214-216 under the lock
Unsubscribed(u, c) ==
    /\ channels' = [channels EXCEPT ![c] = @ \ {u}]
    /\ UNCHANGED user_info

\* lines 506-510: the client of session t asks to join a channel
Subscribe(t) ==
    /\ ctask[t].pc = "receiving"
    /\ \E c \in SubChannels :
         IF LockFree
         THEN /\ Subscribed(ctask[t].user, c)
              /\ UNCHANGED <<ctask, conn_lock, conn_waiters>>
         ELSE /\ WaitForLock(t)
              /\ ctask' = [ctask EXCEPT ![t].pc = "wait_subscribe",
                                        ![t].chan = c]
              /\ UNCHANGED <<channels, user_info, conn_lock>>
    /\ UNCHANGED <<active_connections, notification_queues, delivered>>
    /\ UNCHANGED <<distVars, lockVars, rateVars, routeVars>>

\* lines 206-210 for a task that had to wait
SubscribeWoken(t) ==
    /\ ctask[t].pc = "wait_subscribe"
    /\ conn_lock = t
    /\ Subscribed(ctask[t].user, ctask[t].chan)
    /\ ctask' = [ctask EXCEPT ![t].pc = "receiving", ![t].chan = "none"]
    /\ ReleaseTo(conn_waiters)
    /\ UNCHANGED <<active_connections, notification_queues, delivered>>
    /\ UNCHANGED <<distVars, lockVars, rateVars, routeVars>>

\* lines 516-520: the client of session t asks to leave a channel
Unsubscribe(t) ==
    /\ ctask[t].pc = "receiving"
    /\ \E c \in SubChannels :
         IF LockFree
         THEN /\ Unsubscribed(ctask[t].user, c)
              /\ UNCHANGED <<ctask, conn_lock, conn_waiters>>
         ELSE /\ WaitForLock(t)
              /\ ctask' = [ctask EXCEPT ![t].pc = "wait_unsubscribe",
                                        ![t].chan = c]
              /\ UNCHANGED <<channels, user_info, conn_lock>>
    /\ UNCHANGED <<active_connections, notification_queues, delivered>>
    /\ UNCHANGED <<distVars, lockVars, rateVars, routeVars>>

\* lines 214-216 for a task that had to wait
UnsubscribeWoken(t) ==
    /\ ctask[t].pc = "wait_unsubscribe"
    /\ conn_lock = t
    /\ Unsubscribed(ctask[t].user, ctask[t].chan)
    /\ ctask' = [ctask EXCEPT ![t].pc = "receiving", ![t].chan = "none"]
    /\ ReleaseTo(conn_waiters)
    /\ UNCHANGED <<active_connections, notification_queues, delivered>>
    /\ UNCHANGED <<distVars, lockVars, rateVars, routeVars>>

RECURSIVE Holding(_, _, _, _, _), Released(_, _, _, _, _)

\* send_personal_notification for the i-th user of the list with the lock
\* just taken by t: a registered user's send_json suspends the task, else the
\* notification is queued, the lock released and the loop goes on
Holding(queues, user_ids, i, waiters, t) ==
    IF active_connections[user_ids[i]] # 0
    THEN [q |-> queues, idx |-> i, pc |-> "chan_sending"]
    ELSE Released([queues EXCEPT ![user_ids[i]] = Append(@, t)],
                  user_ids, i + 1, waiters, t)

\* lines 175-180 after the lock was released: the loop has ended, or the
\* next send_personal_notification takes the lock at once when nobody waits
\* for it, else it waits in line
Released(queues, user_ids, i, waiters, t) ==
    IF i > Len(user_ids)
    THEN [q |-> queues, idx |-> i, pc |-> "done"]
    ELSE IF waiters = <<>>
         THEN Holding(queues, user_ids, i, <<>>, t)
         ELSE [q |-> queues, idx |-> i, pc |-> "chan_wait"]

\* the task, the queues and the lock after a run of the loop that ended as
\* res, where waiters is the line behind t
Proceed(t, task, res, waiters) ==
    /\ notification_queues' = res.q
    /\ ctask' = [ctask EXCEPT ![t] =
          [task EXCEPT !.pc = res.pc, !.idx = res.idx,
                       !.ws = IF res.pc = "chan_sending"
                              THEN active_connections[task.user_ids[res.idx]]
                              ELSE 0]]
    /\ CASE res.pc = "chan_sending" ->
              conn_lock' = t /\ conn_waiters' = waiters
         [] res.pc = "done" -> ReleaseTo(waiters)
         [] res.pc = "chan_wait" ->
              /\ conn_lock' = Head(waiters)
              /\ conn_waiters' = Append(Tail(waiters), t)

\* lines 167-180: send_channel_notification(channel, notification)
ChannelPublish(t) ==
    /\ ConnArrives(t)
    /\ \E c \in PubChannels : \E ids \in Orders(channels[c]) :
         LET task == [IdleConnTask EXCEPT !.kind = "channel", !.chan = c,
                                          !.user_ids = ids]
         IN
         IF ids = <<>>
         THEN /\ ctask' = [ctask EXCEPT ![t] = [task EXCEPT !.pc = "done"]]
              /\ UNCHANGED <<notification_queues, conn_lock, conn_waiters>>
         ELSE IF LockFree
              THEN Proceed(t, task, Holding(notification_queues, ids, 1, <<>>, t),
                           <<>>)
              ELSE /\ WaitForLock(t)
                   /\ ctask' = [ctask EXCEPT ![t] =
                         [task EXCEPT !.pc = "chan_wait", !.idx = 1]]
                   /\ UNCHANGED <<notification_queues, conn_lock>>
    /\ UNCHANGED <<active_connections, user_info, channels, delivered>>
    /\ UNCHANGED <<distVars, lockVars, rateVars, routeVars>>

\* lines 157-165 inside the loop for a task that had to wait
ChannelWoken(t) ==
    /\ ctask[t].pc = "chan_wait"
    /\ conn_lock = t
    /\ Proceed(t, ctask[t],
               Holding(notification_queues, ctask[t].user_ids, ctask[t].idx,
                       conn_waiters, t),
               conn_waiters)
    /\ UNCHANGED <<active_connections, user_info, channels, delivered>>
    /\ UNCHANGED <<distVars, lockVars, rateVars, routeVars>>

\* lines 160-161 inside the loop: the send_json ends.  It returns, True is
\* returned and counted, and the loop goes on; or it raises, the lock is
\* released and the exception leaves send_channel_notification
ChannelSend(t) ==
    /\ ctask[t].pc = "chan_sending"
    /\ LET u == ctask[t].user_ids[ctask[t].idx] IN
       \/ /\ Connected(ctask[t].ws)
          /\ delivered' = [delivered EXCEPT ![u] =
                Append(@, [n |-> t, ws |-> ctask[t].ws])]
          /\ Proceed(t, [ctask[t] EXCEPT !.sent_count = @ + 1],
                     Released(notification_queues, ctask[t].user_ids,
                              ctask[t].idx + 1, conn_waiters, t),
                     conn_waiters)
       \/ /\ ctask' = [ctask EXCEPT ![t].pc = "raised", ![t].ws = 0]
          /\ ReleaseTo(conn_waiters)
          /\ UNCHANGED <<notification_queues, delivered>>
    /\ UNCHANGED <<active_connections, user_info, channels>>
    /\ UNCHANGED <<distVars, lockVars, rateVars, routeVars>>

NextChan ==
    \/ \E t \in ChanTasks : Connect(t)
    \/ \E t \in ChanTasks : ConnectWoken(t)
    \/ \E t \in ChanTasks : FlushWoken(t)
    \/ \E t \in ChanTasks : FlushSend(t)
    \/ \E t \in ChanTasks : Disconnect(t)
    \/ \E t \in ChanTasks : DisconnectWoken(t)
    \/ \E t \in ChanTasks : Publish(t)
    \/ \E t \in ChanTasks : PublishWoken(t)
    \/ \E t \in ChanTasks : PublishSend(t)
    \/ \E t \in ChanTasks : Subscribe(t)
    \/ \E t \in ChanTasks : SubscribeWoken(t)
    \/ \E t \in ChanTasks : Unsubscribe(t)
    \/ \E t \in ChanTasks : UnsubscribeWoken(t)
    \/ \E t \in ChanTasks : ChannelPublish(t)
    \/ \E t \in ChanTasks : ChannelWoken(t)
    \/ \E t \in ChanTasks : ChannelSend(t)

-----------------------------------------------------------------------------
(* Specifications                                                          *)

Init == InitDist /\ InitLock /\ InitConn /\ InitRate /\ InitRoute

SpecDist == Init /\ [][NextDist]_vars

SpecLock == Init /\ [][NextLock]_vars

\* the clock advances, and a blocking call's loop is run again after each
\* sleep(0.1) (lines 362-372)
SpecLockFair ==
    /\ Init /\ [][NextLock]_vars
    /\ WF_vars(Tick)
    /\ \A t \in LCalls : WF_vars(BlockingTry(t))

SpecConn == Init /\ [][NextConn]_vars

SpecRate == Init /\ [][NextRate]_vars

SpecRoute == Init /\ [][NextRoute]_vars

\* a request that was accepted runs to its answer
RouteRun(r) == RouteDoctor(r) \/ RouteReturn(r)

\* the request of slot r was answered (result, 404 or 500) and the client
\* is free to send the next one
RouteAgain(r) ==
    /\ rtask[r].pc \in {"done", "no_recipients", "not_found", "error", "raised"}
    /\ rtask' = [rtask EXCEPT ![r] = IdleRoute]
    /\ UNCHANGED route_rows
    /\ UNCHANGED <<distVars, lockVars, connVars, rateVars>>

NextRouteRetry ==
    \/ \E r \in RTasks : RouteStart(r)
    \/ \E r \in RTasks : RouteDoctor(r)
    \/ \E r \in RTasks : RouteReturn(r)
    \/ \E r \in RTasks : RouteAgain(r)

\* requests are made again and again (Distribute is retried) and each one is
\* served to its answer
SpecRouteFair ==
    /\ Init /\ [][NextRouteRetry]_vars
    /\ \A r \in RTasks :
          WF_vars(RouteStart(r)) /\ WF_vars(RouteRun(r)) /\ WF_vars(RouteAgain(r))

SpecChan == Init /\ [][NextChan]_vars

\* the event loop runs every task that is ready: a task woken with the lock
\* goes on, and a transport send that was started ends
ChanStep(t) ==
    \/ ConnectWoken(t) \/ FlushWoken(t) \/ FlushSend(t)
    \/ DisconnectWoken(t)
    \/ PublishWoken(t) \/ PublishSend(t)
    \/ SubscribeWoken(t) \/ UnsubscribeWoken(t)
    \/ ChannelWoken(t) \/ ChannelSend(t)

SpecChanFair ==
    Init /\ [][NextChan]_vars /\ \A t \in ChanTasks : WF_vars(ChanStep(t))

-----------------------------------------------------------------------------
(* Properties of the distribution records (checked under SpecDist)         *)

Rank(st) ==
    CASE st = "pending"   -> 0
      [] st = "sent"      -> 1
      [] st = "delivered" -> 2
      [] st = "read"      -> 3
      [] st = "failed"    -> 4

Status(r) == report_distributions[r].delivery_status

StatusAfter(r) == report_distributions'[r].delivery_status

IsDist(t) == dtask[t].kind = "dist"
IsAck(t)  == dtask[t].kind = "ack"

\* the Distribute call is between its record's insert and its return
Dispatching(t) == IsDist(t) /\ dtask[t].pc \in {"portal", "sms", "whatsapp"}

\* the Distribute call has ended (returned or raised)
Ended(t) == dtask[t].pc \in {"done", "raised"}

\* every request so far was handled with no other request in flight
Sequential == \A t \in DTasks : dtask[t].alone

\* C1: two successive Distribute calls for one (result, recipient) pair, all
\* requests having been handled one after the other: the first call created
\* a record, which is the pair's only non-failed record when the second call
\* arrives; the second call then returns that record's id and the pair still
\* has exactly that one non-failed record.
C1_SecondDistributeReturnsFirst ==
    [][ \A t1, t2 \in DTasks :
          ( /\ t1 < t2
            /\ Sequential /\ Sequential'
            /\ dtask[t2].pc = "idle"
            /\ dtask'[t2].kind = "dist"
            /\ IsDist(t1) /\ Ended(t1) /\ dtask[t1].created
            /\ dtask'[t2].doctor = dtask[t1].doctor
            /\ NonFailed(dtask[t1].doctor) = {dtask[t1].rec}
            /\ \A u \in DTasks :
                 (IsDist(u) /\ dtask[u].doctor = dtask[t1].doctor) => Ended(u) )
          => /\ dtask'[t2].pc = "done"
             /\ dtask'[t2].ret = dtask[t1].rec
             /\ NonFailed(dtask[t1].doctor)' = {dtask[t1].rec} ]_vars

\* C2: after any sequence of Distribute calls and records being marked failed
\* (requests handled one after the other), each (result, recipient) pair has
\* at most one DistributionRecord whose delivery_status is not "failed".
C2_AtMostOneNonFailedPerPair ==
    (Sequential /\ \A t \in DTasks : ~IsAck(t))
    => \A d \in Doctors : Cardinality(NonFailed(d)) <= 1

\* C3: whenever two Distribute calls for the same pair are in flight together,
\* each past its existence check and insert and holding the record whose id
\* it is going to return, and neither record has failed, the two calls hold
\* the same record and the pair has a single non-failed record.
C3_ConcurrentDistributeOneRecord ==
    \A t1, t2 \in DTasks :
        ( /\ t1 # t2
          /\ Dispatching(t1) /\ Dispatching(t2)
          /\ dtask[t1].doctor = dtask[t2].doctor
          /\ Status(dtask[t1].rec) # "failed"
          /\ Status(dtask[t2].rec) # "failed" )
        => /\ dtask[t1].rec = dtask[t2].rec
           /\ Cardinality(NonFailed(dtask[t1].doctor)) <= 1

\* C4: once a record is "read", no step of an acknowledge call (any action)
\* changes its status to "pending" or "sent", and an acknowledge call for a
\* "read" record is accepted: it is not answered not-found and its commit
\* returns.
C4_ReadNeverRegressesByAcknowledge ==
    [][ \A t \in DTasks :
          /\ ( /\ dtask[t].pc = "idle" /\ dtask'[t].kind = "ack"
               /\ dtask'[t].rec \in DOMAIN report_distributions
               /\ Status(dtask'[t].rec) = "read" )
             => /\ dtask'[t].pc = "commit"
                /\ StatusAfter(dtask'[t].rec) = "read"
          /\ ( /\ IsAck(t) /\ dtask[t].pc = "commit"
               /\ dtask'[t].pc # "commit"
               /\ Status(dtask[t].rec) = "read" )
             => /\ dtask'[t].pc = "done"
                /\ StatusAfter(dtask[t].rec) \notin {"pending", "sent"} ]_vars

\* C4 witness: an acknowledge call that loaded a record already "read" has
\* committed and the record is still "read".
C4_Witness ==
    \E t \in DTasks :
        /\ IsAck(t) /\ dtask[t].pc = "done"
        /\ dtask[t].snap = "read"
        /\ Status(dtask[t].rec) = "read"

\* C5: when the dispatch of a Distribute call finishes on a record that an
\* acknowledge call has meanwhile moved to "delivered" or "read", the status
\* is not lowered: it stays what the acknowledge reached.
C5_DispatchDoesNotLowerStatus ==
    [][ \A t \in DTasks :
          ( /\ Dispatching(t)
            /\ dtask'[t].pc = "done"
            /\ Status(dtask[t].rec) \in {"delivered", "read"} )
          => StatusAfter(dtask[t].rec) = Status(dtask[t].rec) ]_vars

\* C6: no update is lost when acknowledge calls overlap: the commit of an
\* acknowledge call on a non-failed record leaves the status the call reaches
\* from the record's current status (never below it), sets the call's own
\* timestamp and keeps every other timestamp.
C6_NoLostAcknowledgeUpdate ==
    [][ \A t \in DTasks :
          ( /\ IsAck(t) /\ dtask[t].pc = "commit"
            /\ dtask'[t].pc = "done"
            /\ Status(dtask[t].rec) # "failed" )
          => LET old == report_distributions[dtask[t].rec]
                 new == report_distributions'[dtask[t].rec]
                 a   == dtask[t].action
             IN /\ new.delivery_status = AckStatus(a, old.delivery_status)
                /\ Rank(new.delivery_status) >= Rank(old.delivery_status)
                /\ new.viewed_at = IF a = "view" THEN t ELSE old.viewed_at
                /\ new.downloaded_at =
                      IF a = "download" THEN t ELSE old.downloaded_at
                /\ new.printed_at = IF a = "print" THEN t ELSE old.printed_at
                /\ new.acknowledged_at =
                      IF a = "acknowledge" THEN t ELSE old.acknowledged_at
      ]_vars

-----------------------------------------------------------------------------
(* Properties of the distributed lock (checked under SpecLock)             *)

\* call t was handed a token, has not released it, and its lease is running
HoldsLease(t) == lcall[t].pc = "held" /\ now < lcall[t].expires

\* C10: a non-blocking AcquireLock returns a token exactly when the key is
\* absent (free, released or expired) and none otherwise, leaving the stored
\* value alone; so of the calls made while one lease runs exactly one gets a
\* token, and at no time do two callers hold a token with a running lease:
\* the single such caller's token is the stored value.
C10_OneAcquirerPerLease ==
    [][ /\ \A t \in LCalls :
             (lcall[t].pc = "idle" /\ lcall'[t].pc \in {"held", "none"})
             => IF lock_value = 0
                THEN lcall'[t].pc = "held" /\ lock_value' = t
                ELSE /\ lcall'[t].pc = "none"
                     /\ lock_value' = lock_value /\ lock_ttl' = lock_ttl
        /\ \A t1, t2 \in LCalls :
             (HoldsLease(t1)' /\ HoldsLease(t2)') => t1 = t2
        /\ \A t \in LCalls : HoldsLease(t)' => lock_value' = t ]_vars

\* C10 witness: two non-blocking calls met on a free lock: one holds a running
\* lease, the other was answered none.
C10_Witness ==
    \E t1, t2 \in LCalls :
        /\ HoldsLease(t1) /\ lock_value = t1 /\ ~lcall[t1].blocking
        /\ lcall[t2].pc = "none" /\ ~lcall[t2].blocking

-----------------------------------------------------------------------------
(* Properties of the connection registry (checked under SpecConn)          *)

\* the calls of send_personal_notification for user r among the tasks
PublishedTo(tasks, r) ==
    {x \in CTasks : tasks[x].kind = "publish" /\ tasks[x].user = r}

\* the websocket_endpoint runs of user r among the tasks
SessionsOf(tasks, r) ==
    {x \in CTasks : tasks[x].kind = "session" /\ tasks[x].user = r}

RECURSIVE Ascending(_)
\* the members of a set of numbers, smallest first
Ascending(S) ==
    IF S = {} THEN <<>>
    ELSE LET m == CHOOSE x \in S : \A y \in S : x <= y
         IN <<m>> \o Ascending(S \ {m})

\* the step in which connect of session s returns to websocket_endpoint
ConnectReturns(s) ==
    /\ ctask[s].pc \in {"idle", "wait_flush", "flushing"}
    /\ ctask'[s].kind = "session"
    /\ ctask'[s].pc = "receiving"

\* C7: recipient R has no connection, N1..Nk are published to R in that order
\* (each call finds R offline and returns false), and R then opens its
\* connection: when connect returns, R's session has received exactly
\* N1..Nk, each once, in that order, and R's offline queue is empty.
\* Notifications are numbered in the order of the publishing calls.
C7_QueueFlushedInOrderOnConnect ==
    [][ \A s \in CTasks :
          LET r == ctask'[s].user IN
          ( /\ ConnectReturns(s)
            /\ SessionsOf(ctask', r) = {s}
            /\ \A x \in PublishedTo(ctask', r) :
                   ctask'[x].pc = "done" /\ ctask'[x].ret = "false" )
          => /\ Len(delivered'[r]) = Cardinality(PublishedTo(ctask', r))
             /\ \A i \in DOMAIN delivered'[r] :
                   delivered'[r][i] =
                       [n |-> Ascending(PublishedTo(ctask', r))[i], ws |-> s]
             /\ notification_queues'[r] = <<>> ]_vars

\* C7 witness: two notifications were queued for an offline recipient, its
\* connection was opened, and the session holds both, the queue being empty.
C7_Witness ==
    \E s \in CTasks :
        LET r == ctask[s].user IN
        /\ ctask[s].kind = "session" /\ ctask[s].pc = "receiving"
        /\ SessionsOf(ctask, r) = {s}
        /\ Cardinality(PublishedTo(ctask, r)) = 2
        /\ \A x \in PublishedTo(ctask, r) : ctask[x].ret = "false"
        /\ Len(delivered[r]) = 2
        /\ delivered[r][1].n < delivered[r][2].n
        /\ notification_queues[r] = <<>>

\* no send_json has raised so far
NoSendRaised == \A t \in CTasks : ctask[t].pc \notin {"crashed", "raised"}

\* C8: for any interleaving of Connect(R) with concurrent
\* PublishToRecipient(R, n) calls, R's delivery order equals publish order: no
\* notification published later is delivered to R before one that was queued
\* while R was offline.  Notifications are numbered in the order of the
\* publishing calls, which is also the order in which the calls get the lock.
C8_DeliveryOrderIsPublishOrder ==
    NoSendRaised =>
        \A r \in Users : \A i, j \in DOMAIN delivered[r] :
            i < j => delivered[r][i].n < delivered[r][j].n

\* the step in which publishing call t, holding the lock, looks up the registry
Decides(t) ==
    /\ ctask[t].pc \in {"idle", "wait_publish"}
    /\ ctask'[t].kind = "publish"
    /\ ctask'[t].pc \in {"sending", "done"}

\* C9: PublishToRecipient(R, n) sends n on R's session and returns true
\* exactly when R has a connection at the time of the call; otherwise it
\* sends nothing, appends n to the tail of R's offline queue and returns
\* false.  Every call ends in one of these two ways.
C9_PublishSendsOrQueues ==
    [][ \A t \in CTasks :
          LET r == ctask'[t].user IN
          /\ Decides(t) =>
               IF active_connections[r] # 0
               THEN /\ ctask'[t].pc = "sending"
                    /\ ctask'[t].ws = active_connections[r]
                    /\ UNCHANGED <<notification_queues, delivered>>
               ELSE /\ ctask'[t].pc = "done" /\ ctask'[t].ret = "false"
                    /\ notification_queues' =
                          [notification_queues EXCEPT ![r] = Append(@, t)]
                    /\ UNCHANGED delivered
          /\ (ctask[t].pc = "sending" /\ ctask'[t].pc # "sending") =>
               /\ ctask'[t].pc = "done" /\ ctask'[t].ret = "true"
               /\ delivered' = [delivered EXCEPT ![r] =
                     Append(@, [n |-> t, ws |-> ctask[t].ws])]
               /\ UNCHANGED notification_queues ]_vars

-----------------------------------------------------------------------------
(* Release of the distributed lock (checked under SpecLock)                *)

\* the step in which release_lock with the token of call k returns
ReleaseReturns(k) ==
    lcall[k].pc = "held" /\ lcall'[k].pc \in {"released", "not_released"}

\* C11: ReleaseLock(name, token) removes the lock only when the stored value
\* equals the presented token, and then reports the release; with a stale or
\* foreign token (the key is gone, or holds the token of a new holder that
\* acquired after the presenter's lease expired) it reports no release and
\* leaves the stored value and its expiry as they are.
C11_ReleaseOnlyWithMatchingToken ==
    [][ \A k \in LCalls :
          ReleaseReturns(k) =>
             IF lock_value = k
             THEN lcall'[k].pc = "released" /\ lock_value' = 0
             ELSE /\ lcall'[k].pc = "not_released"
                  /\ lock_value' = lock_value
                  /\ lock_ttl' = lock_ttl ]_vars

\* C11 witness: a former holder whose lease expired presented its token after
\* a new holder had acquired; no release was reported and the new holder's
\* lock is in place.
C11_Witness ==
    \E k, j \in LCalls :
        /\ k < j
        /\ lcall[k].pc = "not_released"
        /\ HoldsLease(j) /\ lock_value = j

-----------------------------------------------------------------------------
(* Properties of the rate limiter (checked under SpecRate)                 *)

\* the step in which call t performs its increment
Increments(t) == rcall[t].pc = "idle" /\ rcall'[t].pc = "ttl"

\* the calls that were allowed in the window that began at time w
AllowedIn(calls, w) ==
    {t \in RCalls : calls[t].pc # "idle" /\ calls[t].allowed /\ calls[t].since = w}

\* C12: among the CheckRateLimit calls on a key within one window, the call
\* that performs the k-th increment returns allowed = (k <= L) and
\* remaining = max(0, L - k); the counter increments for denied calls too; at
\* most L calls of one window are allowed.
C12_KthIncrementAllowedUpToLimit ==
    [][ /\ \A t \in RCalls :
             Increments(t) =>
                LET k == rl_count + 1 IN
                /\ rl_count' = k
                /\ rcall'[t].current = k
                /\ rcall'[t].allowed = (k <= RateLimit)
                /\ rcall'[t].remaining = Max(0, RateLimit - k)
        /\ \A w \in 0..MaxRateTime :
             Cardinality(AllowedIn(rcall', w)) <= RateLimit ]_vars

\* C12 witness: in one window L calls were allowed and the next was denied
\* with remaining 0, the counter standing at L + 1.
C12_Witness ==
    \E t \in RCalls :
        /\ rcall[t].pc # "idle" /\ ~rcall[t].allowed
        /\ rcall[t].remaining = 0
        /\ rcall[t].current = RateLimit + 1
        /\ rl_count = RateLimit + 1
        /\ Cardinality(AllowedIn(rcall, rcall[t].since)) = RateLimit

\* C13: only the first CheckRateLimit call on a key sets its expiry; a later
\* call inside the window leaves the remaining time as it is, so a call made
\* once `window` has elapsed since the first call of the window finds the
\* counter reset and is allowed.
C13_WindowNotExtended ==
    [][ \A t \in RCalls :
          Increments(t) =>
             /\ rl_count > 0 => rl_ttl' = rl_ttl
             /\ (rl_count = 0 \/ rnow - rl_since >= RateWindow)
                   => rcall'[t].current = 1 /\ rcall'[t].allowed ]_vars

-----------------------------------------------------------------------------
(* Dispatch failures (checked under SpecDist)                              *)

\* the attempted flag of channel c on a row
Flag(row, c) ==
    CASE c = "email"    -> row.email_sent
      [] c = "sms"      -> row.sms_sent
      [] c = "whatsapp" -> row.whatsapp_sent
      [] c = "push"     -> row.push_sent

\* the step in which the dispatch of t's new record ends
DispatchEnds(t) == Dispatching(t) /\ dtask'[t].pc \in {"done", "raised"}

\* C14: channels A and B are both requested and not opted out for a newly
\* created record, and the send on A fails while the send on B succeeds: B is
\* still attempted, the status advances to sent and A's attempted flag is
\* true.  A is email, whose send ends in a raised error; SMS and WhatsApp
\* providers report their failures without raising.
C14_FailedChannelDoesNotBlockOthers ==
    [][ \A t \in DTasks : \A B \in Channels \ {"email"} :
          ( /\ DispatchEnds(t)
            /\ Attempts(t, "email") /\ Attempts(t, B) )
          => /\ StatusAfter(dtask[t].rec) = "sent"
             /\ Flag(report_distributions'[dtask[t].rec], "email")
             /\ Flag(report_distributions'[dtask[t].rec], B) ]_vars

-----------------------------------------------------------------------------
(* Properties of the routes (checked under SpecRoute)                      *)

\* the doctors of request r
Recipients(r) == {rtask[r].doctor_ids[i] : i \in DOMAIN rtask[r].doctor_ids}

\* C15: within one distribute or distribute-to-all call over recipients
\* r1..rn, a delivery failure (a raised error included) while processing ri
\* does not abort the call: once the call has ended it has returned its
\* result summary, and every recipient of the list was processed and has a
\* record.
C15_FailureDoesNotAbortCall ==
    \A r \in RTasks :
        rtask[r].pc \in {"done", "raised"}
        => /\ rtask[r].pc = "done"
           /\ rtask[r].next > Len(rtask[r].doctor_ids)
           /\ \A d \in Recipients(r) \cap Doctors :
                 \E i \in DOMAIN route_rows : route_rows[i].doctor_id = d

\* C16: if every channel send attempted for a newly created record fails, the
\* record's delivery_status becomes failed; it does not become sent.
C16_AllSendsFailedMarksFailed ==
    [][ \A t \in DTasks :
          ( /\ Dispatching(t) /\ dtask'[t].pc = "done"
            /\ ~dtask'[t].any_ok )
          => StatusAfter(dtask[t].rec) = "failed" ]_vars

-----------------------------------------------------------------------------
(* Failed records (checked under SpecDist)                                 *)

\* the step in which Distribute call t runs its existence query
Queries(t) == dtask[t].pc = "idle" /\ dtask'[t].kind = "dist"

\* C17: when the records of (result, recipient) are in failed state, a later
\* Distribute for the pair creates a fresh record with a new id, starting in
\* pending, and the failed record is retained unchanged; no operation ever
\* deletes a DistributionRecord.
C17_FailedRecordIsRecreated ==
    [][ /\ \A t \in DTasks :
             LET d == dtask'[t].doctor IN
             (Queries(t) /\ Matching(d) # {} /\ NonFailed(d) = {})
             => dtask'[t].pc = "insert" /\ UNCHANGED report_distributions
        /\ \A t \in DTasks :
             (dtask[t].pc = "insert" /\ dtask'[t].pc # "insert")
             => /\ report_distributions' =
                      Append(report_distributions,
                             NewDistribution(dtask[t].doctor))
                /\ dtask'[t].rec = Len(report_distributions) + 1
                /\ dtask'[t].rec \notin DOMAIN report_distributions
        /\ Len(report_distributions') >= Len(report_distributions)
        /\ \A i \in DOMAIN report_distributions :
             report_distributions'[i].doctor_id =
                 report_distributions[i].doctor_id ]_vars

\* C17 witness: a Distribute call made after the pair's first call had ended
\* found that call's record failed and created a second one; the failed
\* record is still there.
C17_Witness ==
    \E t \in DTasks, u \in DTasks :
        /\ u < t
        /\ IsDist(u) /\ dtask[u].created /\ dtask[u].rec = 1
        /\ IsDist(t) /\ dtask[t].alone /\ dtask[t].created
        /\ dtask[t].rec = 2
        /\ report_distributions[1].doctor_id = dtask[t].doctor
        /\ report_distributions[1].delivery_status = "failed"
        /\ report_distributions[2].delivery_status # "failed"

-----------------------------------------------------------------------------
(* Re-distribution to a recipient that has a record (checked under SpecDist) *)

\* C18: when Distribute finds an existing non-failed record for the pair, it
\* returns that record with every field unchanged and performs no channel
\* send and no push for the recipient: the call ends at the query, having
\* created nothing, and takes no further step.
C18_ExistingRecordReturnedUnchanged ==
    [][ /\ \A t \in DTasks :
             LET d == dtask'[t].doctor IN
             /\ (Queries(t) /\ NonFailed(d) # {} /\ Matching(d) = NonFailed(d))
                => dtask'[t].pc = "done"
             /\ (Queries(t) /\ dtask'[t].pc = "done")
                => /\ dtask'[t].ret \in NonFailed(d)
                   /\ ~dtask'[t].created
                   /\ UNCHANGED report_distributions
        /\ \A t \in DTasks :
             (IsDist(t) /\ dtask[t].pc = "done" /\ ~dtask[t].created)
             => dtask'[t] = dtask[t] ]_vars

\* C18 witness: a Distribute call, made with no other request in flight, was
\* answered with the pair's existing record, which the recipient had read.
C18_Witness ==
    \E t \in DTasks :
        /\ IsDist(t) /\ dtask[t].alone
        /\ dtask[t].pc = "done" /\ ~dtask[t].created
        /\ dtask[t].ret \in DOMAIN report_distributions
        /\ report_distributions[dtask[t].ret].doctor_id = dtask[t].doctor
        /\ report_distributions[dtask[t].ret].delivery_status = "read"
        /\ \E u \in DTasks :
              /\ u < t /\ IsAck(u) /\ dtask[u].rec = dtask[t].ret
              /\ report_distributions[dtask[t].ret].downloaded_at = u

-----------------------------------------------------------------------------
(* The effect of one acknowledgement (checked under SpecDist)              *)

\* the step in which acknowledge call t commits
Commits(t) == IsAck(t) /\ dtask[t].pc = "commit" /\ dtask'[t].pc = "done"

\* C19: acknowledge(record, action) on a non-failed record, applied to the
\* record as the call read it, yields exactly: view stamps viewed_at and
\* sets the status to delivered if it was pending or sent, otherwise leaves
\* it; download and acknowledge stamp downloaded_at and acknowledged_at and
\* set the status to read; print stamps printed_at and leaves the status; no
\* other field of the record and no other record is changed.
C19_AcknowledgeExactEffect ==
    [][ \A t \in DTasks :
          LET r   == dtask[t].rec
              row == report_distributions[r]
              a   == dtask[t].action
          IN
          ( /\ Commits(t)
            /\ row.delivery_status = dtask[t].snap
            /\ row.delivery_status # "failed" )
          => report_distributions' = [report_distributions EXCEPT ![r] =
               CASE a = "view" ->
                      [row EXCEPT !.viewed_at = t,
                                  !.delivery_status =
                                      IF @ \in {"pending", "sent"}
                                      THEN "delivered" ELSE @]
                 [] a = "download" ->
                      [row EXCEPT !.downloaded_at = t,
                                  !.delivery_status = "read"]
                 [] a = "acknowledge" ->
                      [row EXCEPT !.acknowledged_at = t,
                                  !.delivery_status = "read"]
                 [] a = "print" ->
                      [row EXCEPT !.printed_at = t]] ]_vars

\* C19 witness: a view of a record that had been read was committed: viewed_at
\* is stamped and the status is still read.
C19_Witness ==
    \E t \in DTasks :
        /\ IsAck(t) /\ dtask[t].pc = "done" /\ dtask[t].action = "view"
        /\ dtask[t].snap = "read"
        /\ report_distributions[dtask[t].rec].viewed_at = t
        /\ report_distributions[dtask[t].rec].delivery_status = "read"

\* C20: an acknowledge call with action download or acknowledge on a record
\* whose status is failed does not move it to read: the call is answered with
\* an error and the record stays failed.
C20_FailedRecordNotAcknowledged ==
    [][ \A t \in DTasks :
          ( /\ Commits(t)
            /\ dtask[t].action \in {"download", "acknowledge"}
            /\ dtask[t].snap = "failed"
            /\ Status(dtask[t].rec) = "failed" )
          => StatusAfter(dtask[t].rec) = "failed" ]_vars

-----------------------------------------------------------------------------
(* Acknowledgement of an unknown record (checked under SpecDist)           *)

\* the step in which acknowledge call t runs its query
Loads(t) == dtask[t].pc = "idle" /\ dtask'[t].kind = "ack"

\* C21: acknowledge with a distribution id that matches no record returns a
\* not-found error and changes no DistributionRecord; the call does nothing
\* after the error.
C21_UnknownIdIsNotFound ==
    [][ /\ \A t \in DTasks :
             (Loads(t) /\ dtask'[t].rec \notin DOMAIN report_distributions)
             => /\ dtask'[t].pc = "notfound"
                /\ UNCHANGED report_distributions
        /\ \A t \in DTasks :
             dtask[t].pc = "notfound" => dtask'[t] = dtask[t] ]_vars

\* C21 witness: an acknowledgement of an id beyond the existing records was
\* answered not found.
C21_Witness ==
    \E t \in DTasks :
        /\ IsAck(t) /\ dtask[t].pc = "notfound"
        /\ report_distributions # <<>>
        /\ dtask[t].rec \notin DOMAIN report_distributions

-----------------------------------------------------------------------------
(* Channel flags of a dispatch (C22 to C24)                                *)

\* the <channel>_sent_at column of a row
SentAt(row, c) ==
    CASE c = "email"    -> row.email_sent_at
      [] c = "sms"      -> row.sms_sent_at
      [] c = "whatsapp" -> row.whatsapp_sent_at
      [] c = "push"     -> row.push_sent_at

\* channels the dispatch of t was asked for and the recipient has opted out of
OptedOut(t) == (dtask[t].methods \cap Channels)
                  \ notification_preferences(dtask[t].doctor)

\* C22: for a requested channel the recipient has opted out of, the dispatch
\* does not invoke the channel's send, leaves the channel's flag and timestamp
\* unset, and does not mark the record failed because of it.
C22_OptedOutChannelSkipped ==
    [][ \A t \in DTasks :
          (Dispatching(t) /\ dtask'[t] # dtask[t]) =>
            \A c \in OptedOut(t) :
               LET row == report_distributions'[dtask[t].rec] IN
               /\ c \notin dtask'[t].invoked
               /\ ~Flag(row, c)
               /\ SentAt(row, c) = 0
               /\ (row.delivery_status = "failed"
                     => report_distributions[dtask[t].rec].delivery_status
                           = "failed") ]_vars

\* C22 witness: a dispatch for the recipient who opted out of email reached
\* its commit: the other requested channels were sent and flagged, email not.
C22_Witness ==
    \E t \in DTasks :
        /\ IsDist(t) /\ dtask[t].pc = "done" /\ dtask[t].created
        /\ "email" \notin notification_preferences(dtask[t].doctor)
        /\ dtask[t].invoked = {"sms", "whatsapp"}
        /\ LET row == report_distributions[dtask[t].rec] IN
           /\ row.sms_sent /\ row.whatsapp_sent /\ ~row.email_sent
           /\ row.email_sent_at = 0

\* the step in which the dispatch of t ends after its portal push returned:
\* it reaches its commit, or a channel block raises
DispatchRan(t) ==
    /\ DispatchEnds(t)
    /\ dtask'[t].pc = "done" \/ dtask'[t].invoked # dtask[t].invoked

\* C23: once the dispatch of a record has run, every channel among email,
\* sms, whatsapp and push that was requested and not opted out has its flag
\* true and its timestamp set, whatever the provider answered, and a channel
\* that was not requested has its flag unset.
C23_RequestedChannelsFlagged ==
    [][ \A t \in DTasks :
          DispatchRan(t) =>
            \A c \in Channels :
               LET row == report_distributions'[dtask[t].rec] IN
               /\ Attempts(t, c) => (Flag(row, c) /\ SentAt(row, c) # 0)
               /\ c \notin dtask[t].methods => ~Flag(row, c) ]_vars

\* C24 (checked under SpecRoute, whose rows change status only by a
\* dispatch): a record that a dispatch advanced from pending to sent has at
\* least one channel flag set.
C24_SentRecordHasChannelFlag ==
    \A i \in DOMAIN route_rows :
        route_rows[i].delivery_status = "sent"
            => \E c \in Channels : Flag(route_rows[i], c)

-----------------------------------------------------------------------------
(* Recipients and result of a distribute call (checked under SpecRoute)    *)

\* the step in which call r of the distribute route answers
Answers(r) ==
    /\ rtask[r].pc \in {"idle", "loop"}
    /\ rtask'[r].pc \in {"done", "no_recipients"}
    /\ rtask'[r].route = "distribute"

\* the recipients of call r that a record can be delivered to: line 306
\* passes over a doctor that does not exist or is not active
Deliverable(r) ==
    { rtask'[r].doctor_ids[i] : i \in DOMAIN rtask'[r].doctor_ids } \cap Doctors

\* C25: when the set of recipients a Distribute call can deliver to is empty,
\* the call creates no record, sends nothing, and its result carries the
\* no-recipients signal instead of being an ordinary success result.
C25_EmptyRecipientsSignalled ==
    [][ \A r \in RTasks :
          (Answers(r) /\ Deliverable(r) = {})
          => /\ rtask'[r].pc = "no_recipients"
             /\ rtask'[r].created = <<>>
             /\ UNCHANGED route_rows ]_vars

\* the step in which call r of the distribute route settles its recipients
Resolves(r) == rtask[r].pc = "idle" /\ rtask'[r].route = "distribute"

\* the doctor the lab result's requested_by names, if it names one
Referring(r) ==
    IF rtask'[r].requested_by = 0 THEN {} ELSE {rtask'[r].requested_by}

\* C26: with no explicit recipient ids the list Distribute resolves has no
\* duplicates and is exactly the union of the referring recipient, the
\* recipients of earlier distributions for the same subject, and the
\* recipients actively assigned to the result's origin branch with the
\* receive-all preference; with explicit ids the list is the explicit one.
C26_ResolvedRecipientsAreUnion ==
    [][ \A r \in RTasks :
          Resolves(r) =>
            LET list == rtask'[r].doctor_ids IN
            IF rtask'[r].explicit = <<>>
            THEN /\ rtask'[r].pc \in {"loop", "no_recipients"}
                 /\ \A i, j \in DOMAIN list : list[i] = list[j] => i = j
                 /\ { list[i] : i \in DOMAIN list }
                       = Referring(r) \cup PreviousRecipients
                           \cup BranchRecipients(rtask'[r].branch_id)
            ELSE list = rtask'[r].explicit ]_vars

\* C27: Distribute returns the ids of all records that exist after the call
\* for the resolved recipients, pre-existing and newly created: every record
\* the call created is in the result, and the reported count is the number
\* of returned records.
C27_ResultListsAllRecords ==
    [][ \A r \in RTasks :
          (Answers(r) /\ rtask'[r].pc = "done") =>
            LET ret  == rtask'[r].distributions
                ids  == { ret[i] : i \in DOMAIN ret }
                list == rtask'[r].doctor_ids
            IN
            /\ \A i \in DOMAIN rtask'[r].created : rtask'[r].created[i] \in ids
            /\ ids = { i \in DOMAIN route_rows' :
                         route_rows'[i].doctor_id
                            \in { list[k] : k \in DOMAIN list } }
            /\ rtask'[r].distributions_count = Len(ret) ]_vars

-----------------------------------------------------------------------------
(* The pending list of a doctor (checked under SpecDist)                   *)

\* get_pending_reports_for_doctor: the rows of doctor d the query selects
\* (the tables of the model stay below the default limit of 20 rows)
PendingFor(table, d) ==
    { i \in DOMAIN table :
        /\ table[i].doctor_id = d
        /\ table[i].delivery_status \in {"pending", "sent", "delivered"} }

\* no acknowledge has been committed on the row
Untouched(row) ==
    /\ row.viewed_at = 0 /\ row.downloaded_at = 0
    /\ row.printed_at = 0 /\ row.acknowledged_at = 0

\* C28: a record is listed by pending-for-recipient for its recipient from
\* its creation until the recipient calls acknowledge(action = view); after
\* that call the record has status delivered and is no longer listed.
C28_ListedUntilViewed ==
    /\ [](\A i \in DOMAIN report_distributions :
            LET row == report_distributions[i] IN
            (Untouched(row) /\ row.delivery_status # "failed")
               => i \in PendingFor(report_distributions, row.doctor_id))
    /\ [][ \A t \in DTasks :
             LET r == dtask[t].rec IN
             ( /\ Commits(t)
               /\ dtask[t].action = "view"
               /\ Untouched(report_distributions[r])
               /\ report_distributions[r].delivery_status \in {"pending", "sent"}
               /\ report_distributions[r].delivery_status = dtask[t].snap )
             => /\ report_distributions'[r].delivery_status = "delivered"
                /\ r \notin PendingFor(report_distributions',
                                       report_distributions'[r].doctor_id) ]_vars

-----------------------------------------------------------------------------
(* Offline queue and subscriptions (checked under SpecConn)                *)

\* a per-recipient cap the configuration could set; the manager has no such
\* setting, and the publishes of the model can outnumber this one
QueueCap == MaxConnTasks - 2

\* C29: the offline queue of a recipient never holds more than the configured
\* per-recipient cap of notifications, however many are published while the
\* recipient has no live connection.
C29_QueueBounded ==
    \A u \in Users : Len(notification_queues[u]) <= QueueCap

\* C30: the subscribed-channel list recorded for every live connection
\* contains the recipient's private channel and the role-wide channel of its
\* role, also after the recipient connected again without a disconnect.
C30_SubscribedChannelsComplete ==
    \A u \in Users :
        user_info[u].present =>
            LET subs == user_info[u].subscribed_channels
                names == { subs[i] : i \in DOMAIN subs }
            IN  PrivateChannel(u) \in names /\ RoleChannel(u) \in names

-----------------------------------------------------------------------------
(* Loss and repetition of notifications (checked under SpecConn)           *)

\* the notifications the sessions of user u have received
Received(u) == { delivered[u][i].n : i \in DOMAIN delivered[u] }

\* the notifications in the offline queue of user u
Queued(u) == { notification_queues[u][i] : i \in DOMAIN notification_queues[u] }

\* C36: no notification is dropped: once a PublishToRecipient(R, n) call has
\* ended, n has been delivered on a session of R or is in R's offline queue,
\* also when the transport send on R's registered session fails.
C36_NoNotificationDropped ==
    \A t \in CTasks :
        (ctask[t].kind = "publish" /\ ctask[t].pc \in {"done", "raised"})
        => t \in Received(ctask[t].user) \cup Queued(ctask[t].user)

\* C37: a notification placed in a recipient's offline queue is delivered to
\* the recipient at most once, over any sequence of connects and disconnects,
\* also when a send fails partway through a flush and the recipient connects
\* again.
C37_QueuedDeliveredAtMostOnce ==
    \A u \in Users : \A i, j \in DOMAIN delivered[u] :
        delivered[u][i].n = delivered[u][j].n => i = j

-----------------------------------------------------------------------------
(* Channels and membership (checked under SpecChan)                        *)

\* the step in which disconnect(user_id), called by session t, returns
DisconnectReturns(t) ==
    /\ ctask[t].pc \in {"receiving", "wait_disconnect"}
    /\ ctask'[t].pc = "closed"

\* C31: after Disconnect(R), whatever connects, subscribes and unsubscribes
\* came before, R has no connection entry and is a subscriber of no channel
\* (so that a later publish to a channel neither sends to R nor queues for R).
C31_DisconnectReleasesMemberships ==
    [][ \A t \in CTasks :
          DisconnectReturns(t) =>
            LET r == ctask[t].user IN
            /\ active_connections'[r] = 0
            /\ ~user_info'[r].present
            /\ \A c \in ChannelNames : r \notin channels'[c] ]_vars

\* C40: the two views of membership agree: for every recipient R with a
\* connection entry and every channel c, R is in c's subscriber set exactly
\* when c is in R's recorded subscribed-channel list.
C40_MembershipViewsAgree ==
    \A r \in Users :
        user_info[r].present =>
            \A c \in ChannelNames :
                r \in channels[c]
                  <=> \E i \in DOMAIN user_info[r].subscribed_channels :
                         user_info[r].subscribed_channels[i] = c

\* the step in which send_channel_notification call t ends
ChannelEnds(t) ==
    /\ ctask[t].pc \in {"idle", "chan_wait", "chan_sending"}
    /\ ctask'[t].kind = "channel"
    /\ ctask'[t].pc \in {"done", "raised"}

\* how often notification n is among the deliveries and in the queue of u
Copies(deliveries, queues, u, n) ==
    Cardinality({ i \in DOMAIN deliveries[u] : deliveries[u][i].n = n })
      + Cardinality({ i \in DOMAIN queues[u] : queues[u][i] = n })

\* C32: Publish(channel, n) reaches every recipient subscribed to the channel
\* at the time of the call exactly once, sent on its live connection or
\* appended to its offline queue; recipients that are not subscribed receive
\* and queue nothing; the returned count is the number of live deliveries.
C32_ChannelPublishReachesSubscribers ==
    [][ \A t \in CTasks :
          /\ (ctask[t].pc = "idle" /\ ctask'[t].kind = "channel") =>
               { ctask'[t].user_ids[i] : i \in DOMAIN ctask'[t].user_ids }
                  = channels[ctask'[t].chan]
          /\ ChannelEnds(t) =>
               LET ids == ctask'[t].user_ids IN
               /\ ctask'[t].pc = "done"
               /\ \A u \in Users :
                     Copies(delivered', notification_queues', u, t)
                        = IF \E i \in DOMAIN ids : ids[i] = u THEN 1 ELSE 0
          /\ (ctask'[t].kind = "channel" /\ ctask'[t].pc # "raised") =>
               ctask'[t].sent_count - ctask[t].sent_count
                  = IF /\ ctask[t].pc = "chan_sending"
                       /\ ctask'[t] # ctask[t]
                    THEN 1 ELSE 0 ]_vars

-----------------------------------------------------------------------------
(* Progress of the connection manager (checked under SpecChanFair)         *)

\* call t is inside a method of the manager: it waits for the lock or holds
\* it across a transport send
InCall(t) ==
    ctask[t].pc \in {"wait_register", "wait_flush", "flushing",
                     "wait_disconnect", "wait_publish", "sending",
                     "wait_subscribe", "wait_unsubscribe",
                     "chan_wait", "chan_sending"}

\* C39: the manager never deadlocks: no call waits for the lock while it is
\* the one holding it, and every connect, disconnect, subscribe,
\* unsubscribe and publish that has started runs to its end, given that
\* every transport send ends.
C39_NoDeadlock ==
    /\ [](\A t \in CTasks :
            conn_lock = t =>
               \A i \in DOMAIN conn_waiters : conn_waiters[i] # t)
    /\ \A t \in CTasks : InCall(t) ~> ~InCall(t)

\* C39 witness: a call holds the lock across a transport send while two
\* other calls wait in line behind it.
C39_Witness ==
    /\ conn_lock # 0
    /\ ctask[conn_lock].pc \in {"sending", "chan_sending", "flushing"}
    /\ Len(conn_waiters) = 2

-----------------------------------------------------------------------------
(* Termination of the blocking lock acquisition (checked under SpecLockFair) *)

\* lines 362-363: the wait of call t, started at start, has lasted timeout
Elapsed(t) == now - lcall[t].start >= lcall[t].timeout

-----------------------------------------------------------------------------
(* Requests for a missing lab result or doctor (checked under SpecRoute)   *)

\* C34: Distribute and distribute-to-all for a lab_result_id that matches no
\* lab result are answered NotFound; the call inserts no record and sends
\* no notification (it never reaches the loop that dispatches).
C34_MissingResultIsNotFound ==
    [][\A r \in RTasks :
          (rtask'[r] # rtask[r] /\ rtask'[r].lab_result_id \notin lab_results)
             => /\ rtask'[r].pc = "not_found"
                /\ rtask'[r].created = <<>>
                /\ rtask'[r].distributions = <<>>
                /\ route_rows' = route_rows]_vars

\* C34 witness: after a call that inserted records, a call for a missing lab
\* result was answered NotFound.
C34_Witness ==
    \E r, u \in RTasks :
       /\ rtask[r].pc = "not_found" /\ rtask[r].lab_result_id \notin lab_results
       /\ rtask[u].pc = "done" /\ rtask[u].created # <<>>

\* line 304: the loop of call r stands at a doctor id that is unknown or
\* not active
AtInactive(r) ==
    /\ rtask[r].pc = "loop"
    /\ rtask[r].next <= Len(rtask[r].doctor_ids)
    /\ rtask[r].doctor_ids[rtask[r].next] \notin Doctors

\* C38: Distribute and distribute-to-all create a record only for a doctor
\* that exists and is active: every record names an active doctor, and the
\* turn of the loop for an unknown or inactive id inserts no record, adds
\* nothing to the result and goes on to the next recipient.
C38_RecordsOnlyForActiveDoctors ==
    /\ [](\A i \in DOMAIN route_rows : route_rows[i].doctor_id \in Doctors)
    /\ [][\A r \in RTasks :
            (AtInactive(r) /\ rtask'[r] # rtask[r])
               => /\ route_rows' = route_rows
                  /\ rtask'[r] = [rtask[r] EXCEPT !.next = @ + 1]]_vars

\* C38 witness: a call whose list began with an inactive or unknown id has
\* returned, and it inserted a record for the active doctor after it.
C38_Witness ==
    \E r \in RTasks :
       /\ rtask[r].pc = "done"
       /\ Len(rtask[r].doctor_ids) > 1
       /\ rtask[r].doctor_ids[1] \notin Doctors
       /\ rtask[r].created # <<>>

-----------------------------------------------------------------------------
(* Progress of a pending record (checked under SpecRouteFair)              *)

\* lines 97-105: a later distribute call for the pair of record i found the
\* record and returned it
Retried(i) ==
    \E r \in RTasks :
       /\ rtask[r].route = "distribute"
       /\ \E k \in DOMAIN rtask[r].distributions : rtask[r].distributions[k] = i
       /\ \A k \in DOMAIN rtask[r].created : rtask[r].created[k] # i

PendingRows(d) ==
    { i \in DOMAIN route_rows :
        /\ route_rows[i].doctor_id = d
        /\ route_rows[i].delivery_status = "pending" }

\* C35: a record created by Distribute leaves pending for sent or failed
\* when Distribute for its pair is retried, with no action of the recipient:
\* a record left pending by a dispatch that raised does not stay pending, so
\* from some time on no retry is answered with a pending record.
C35_PendingRecordLeavesPending ==
    \A d \in Doctors : <>[](\A i \in PendingRows(d) : ~Retried(i))

=============================================================================
